---------------------------- MODULE Spec2Model ----------------------------
(***************************************************************************)
(* A model of findbad_catastrophic.js: the prompt-delimited response       *)
(* multiplexer (expect), the debugfs session built on it (openDebugfs,     *)
(* debugfsCmd), the bad-range index (rangeIsSafe), the inode address       *)
(* computation (getAddressOfInode) and the directory walker (recurse).     *)
(*                                                                         *)
(* Text is a sequence of one-character strings; bytes are integers.        *)
(***************************************************************************)
EXTENDS Integers, Sequences, FiniteSets, TLC

VARIABLES
    \* ---- expect(stream, prompt): the multiplexer's closure state
    found,              \* responses that arrived with no caller waiting
    sinceLastMatch,     \* decoded text after the last prompt
    streamError,        \* "none", or the error later calls throw
    promiseResolvers,   \* suspended callers (indices into calls), oldest first
    attached,           \* the data/error/end listeners are on the stream
    \* ---- the stream the multiplexer listens to
    streamState,        \* "open", "ended" or "errored"
    nbytes,             \* bytes delivered so far
    \* ---- history of the multiplexer's use
    calls,              \* every next() call, in call order, with its outcome
    arrived,            \* every response completed by lookForPrompt, in order
    disposedAt,         \* -1, or Len(calls) when dispose() first ran
    closedAt,           \* -1, or Len(calls) when the stream first ended/errored
    \* ---- the debugfs session
    spc,                \* "start" before openDebugfs, then "open"
    debugfsStdin,       \* the command lines written, in write order
    inspRead,           \* number of command lines the inspector has answered
    inspBanner,         \* the inspector has printed its banner and first prompt
    pipe,               \* inspector output not yet delivered as a chunk
    \* ---- module-level tables of the program
    badRanges,          \* the configured bad ranges, in array order
    startOfInodeTableByGroup,   \* group -> byte offset of its inode table
    \* ---- the device and the inspector process
    disk,               \* block number -> the words `bd` dumps for it
    proc,               \* the inspector process, Shell.cmd's result promise and
                        \* main's shutdown
    \* ---- one call of a pure function: its arguments and its result
    query,
    answer,
    \* ---- the walk
    fs,                 \* the directory listings of the device the inspector reads
    wpc,                \* "main", "walking", "returned" or "aborted"
    stack,              \* the active calls of recurse, innermost last
    inodesVisited,      \* the set inodesVisited
    output,             \* the lines printed, in order
    cmdLog,             \* the inspector commands issued, in order
    tested,             \* the inodes dataIsSafe() was called on, in order
    reports             \* for each line printed: the inode and the cause

muxVars  == <<found, sinceLastMatch, streamError, promiseResolvers, attached,
              streamState, nbytes, calls, arrived, disposedAt, closedAt>>
sessVars == <<spc, debugfsStdin, inspRead, inspBanner, pipe>>
envVars  == <<badRanges, startOfInodeTableByGroup, disk, proc>>
pureVars == <<query, answer>>
walkVars == <<fs, wpc, stack, inodesVisited, output, cmdLog, tested, reports>>
otherVars == <<envVars, pureVars, walkVars>>
vars     == <<muxVars, sessVars, otherVars>>

---------------------------------------------------------------------------
(* Bounds of the model.                                                    *)
MaxCalls  == 3      \* next() calls in one run of the multiplexer
MaxStream == 5      \* bytes the stream delivers in one run
MaxChunk  == 3      \* longest chunk of one 'data' event
MaxCmds   == 2      \* commands issued in one run of the session
MaxRanges == 2      \* bad ranges in a configuration
MaxAddr   == 4      \* largest byte offset of a range start and of a query
MaxLen    == 2      \* longest bad range
MaxGroup  == 1      \* largest block group a statistics output may list
MaxRootEntries == 2 \* entries of the root directory besides . and ..
MaxSubEntries  == 1 \* entries of the subdirectory besides . and ..
MaxDepth  == 5      \* nested calls of recurse
MaxRaw    == 4      \* characters of a raw response handed to debugfsCmd
MaxExtLeaves == 3   \* leaf entries of an extent tree
MaxExtDepth  == 2   \* depth of the root of an extent tree
MaxL2Children == 2  \* full single-indirect blocks under the double-indirect block
MaxSizeBlocks == 3  \* whole blocks in the size and in the sector count of a record

---------------------------------------------------------------------------
(* Text helpers.                                                           *)

\* The bytes the modelled streams carry, with the character each decodes to.
ByteChar ==
    (100 :> "d") @@ (58 :> ":") @@ (120 :> "x") @@ (10 :> "\n") @@
    (98 :> "b") @@ (114 :> "r") @@ (49 :> "1") @@ (50 :> "2") @@ (51 :> "3")

ByteOf(c) == CHOOSE b \in DOMAIN ByteChar : ByteChar[b] = c

Encode(s) == [i \in 1..Len(s) |-> ByteOf(s[i])]

\* decoder.write(chunk) for chunks of single-byte code points.
DecoderWrite(chunk) == [i \in 1..Len(chunk) |-> ByteChar[chunk[i]]]

\* The prompt marker handed to expect() ('debugfs:', two characters here).
prompt == <<"d", ":">>

\* String.prototype.indexOf: 0-based index of the first occurrence, or -1.
IndexOf(s, p) ==
    LET hits == {i \in 0..(Len(s) - Len(p)) : SubSeq(s, i + 1, i + Len(p)) = p}
    IN  IF hits = {} THEN -1
        ELSE CHOOSE i \in hits : \A j \in hits : i <= j

\* String.prototype.substring(from) and substring(0, to).
SubstringFrom(s, from) == SubSeq(s, from + 1, Len(s))
SubstringTo(s, to)     == SubSeq(s, 1, to)

\* All byte sequences of length 1..n over the set B.
RECURSIVE SeqsUpTo(_, _)
SeqsUpTo(B, n) ==
    IF n = 0 THEN {<<>>}
    ELSE LET shorter == SeqsUpTo(B, n - 1)
         IN  shorter \cup {Append(s, b) : s \in {t \in shorter : Len(t) = n - 1}, b \in B}

---------------------------------------------------------------------------
(* expect(): the multiplexer.                                              *)

\* One record of the call history: who called, the outcome ("pending",
\* "resolved" with val, "rejected" with err), how the call went ("buffered":
\* returned a buffered response, "threw", "suspended") and how many callers
\* were suspended ahead of it when it was made.
Call(cmd, st, val, err, how) ==
    [cmd |-> cmd, st |-> st, val |-> val, err |-> err, how |-> how,
     ahead |-> Len(promiseResolvers)]

\* promiseResolvers.push({resolve, reject})
PushResolver_front(rs, id) == <<id>> \o rs
PushResolver(rs, id) == Append(rs, id)

\* promiseResolvers.shift(): the resolver taken, and the rest.
ShiftResolver_last(rs) == [taken |-> rs[Len(rs)], rest |-> SubSeq(rs, 1, Len(rs) - 1)]
ShiftResolver(rs) == [taken |-> Head(rs), rest |-> Tail(rs)]

\* promiseResolvers.forEach(({reject}) => reject(err)): the call history with
\* every suspended caller rejected.
RejectAll_none(cs, rs, err) == cs
RejectAll(cs, rs, err) ==
    [n \in 1..Len(cs) |->
        IF \E k \in 1..Len(rs) : rs[k] = n
        THEN [cs[n] EXCEPT !.st = "rejected", !.err = err]
        ELSE cs[n]]

\* promiseResolvers.splice(0, promiseResolvers.length): what is left.
Splice_keep(rs) == rs
Splice(rs) == <<>>

\* lookForPrompt(): the while loop, on a record of the state it touches.
RECURSIVE lookForPrompt(_)
lookForPrompt(m) ==
    LET index == IndexOf(m.slm, prompt) IN
    IF index = -1 THEN m
    ELSE
        LET match == SubstringTo(m.slm, index)
            rest  == SubstringFrom(m.slm, index + Len(prompt))
        IN  IF Len(m.rs) > 0
            THEN LET sh == ShiftResolver(m.rs) IN
                 lookForPrompt([m EXCEPT
                     !.rs = sh.rest,
                     !.cs[sh.taken] = [@ EXCEPT !.st = "resolved", !.val = match],
                     !.arrived = Append(@, match),
                     !.slm = rest])
            ELSE lookForPrompt([m EXCEPT
                     !.found = Append(@, match),
                     !.arrived = Append(@, match),
                     !.slm = rest])

\* sinceLastMatch += text
Accumulate_reset(slm, text) == text
Accumulate(slm, text) == slm \o text

\* onData(chunk)
onData(chunk) ==
    LET m == lookForPrompt([slm     |-> Accumulate(sinceLastMatch, DecoderWrite(chunk)),
                            found   |-> found,
                            rs      |-> promiseResolvers,
                            cs      |-> calls,
                            arrived |-> arrived])
    IN  /\ sinceLastMatch' = m.slm
        /\ found' = m.found
        /\ promiseResolvers' = m.rs
        /\ calls' = m.cs
        /\ arrived' = m.arrived
        /\ nbytes' = nbytes + Len(chunk)
        /\ UNCHANGED <<streamError, attached>>

\* onError(err), for the error a stream emits (never a falsy value).
onError ==
    /\ streamError' = "error"
    /\ calls' = RejectAll(calls, promiseResolvers, "error")
    /\ promiseResolvers' = Splice(promiseResolvers)
    /\ UNCHANGED <<found, sinceLastMatch, attached, arrived, nbytes>>

\* onEnd()
onEnd ==
    /\ streamError' = "ended"
    /\ calls' = RejectAll(calls, promiseResolvers, "ended")
    /\ promiseResolvers' = Splice(promiseResolvers)
    /\ UNCHANGED <<found, sinceLastMatch, attached, arrived, nbytes>>

\* next(), called on behalf of cmd ("banner", "client" or a command text).
next(cmd) ==
    /\ IF Len(found) > 0
       THEN /\ calls' = Append(calls, Call(cmd, "resolved", Head(found), "none", "buffered"))
            /\ found' = Tail(found)
            /\ UNCHANGED promiseResolvers
       ELSE IF streamError # "none"
       THEN /\ calls' = Append(calls, Call(cmd, "rejected", <<>>, streamError, "threw"))
            /\ UNCHANGED <<found, promiseResolvers>>
       ELSE /\ calls' = Append(calls, Call(cmd, "pending", <<>>, "none", "suspended"))
            /\ promiseResolvers' = PushResolver(promiseResolvers, Len(calls) + 1)
            /\ UNCHANGED found
    /\ UNCHANGED <<sinceLastMatch, streamError, attached, arrived, nbytes>>

\* dispose()
dispose ==
    /\ attached' = FALSE
    /\ streamError' = "disposed"
    /\ calls' = RejectAll(calls, promiseResolvers, "disposed")
    /\ promiseResolvers' = Splice(promiseResolvers)
    /\ disposedAt' = IF disposedAt = -1 THEN Len(calls) ELSE disposedAt
    /\ UNCHANGED <<found, sinceLastMatch, arrived, nbytes>>

---------------------------------------------------------------------------
(* The multiplexer on an arbitrary stream, used by arbitrary callers.      *)

\* Bytes an arbitrary stream delivers: payload and the prompt's characters.
StreamBytes == {100, 58, 120}

Chunks == SeqsUpTo(StreamBytes, MaxChunk) \ {<<>>}

SessInit ==
    /\ spc = "start"
    /\ debugfsStdin = <<>>
    /\ inspRead = 0
    /\ inspBanner = FALSE
    /\ pipe = <<>>

\* The state expect() returns in.
MuxInit ==
    /\ found = <<>>
    /\ sinceLastMatch = <<>>
    /\ streamError = "none"
    /\ promiseResolvers = <<>>
    /\ attached = TRUE
    /\ streamState = "open"
    /\ nbytes = 0
    /\ calls = <<>>
    /\ arrived = <<>>
    /\ disposedAt = -1
    /\ closedAt = -1

\* No walk is under way.
WalkIdle ==
    /\ fs = <<>>
    /\ wpc = "idle"
    /\ stack = <<>>
    /\ inodesVisited = {}
    /\ output = <<>>
    /\ cmdLog = <<>>
    /\ tested = <<>>
    /\ reports = <<>>

\* null and undefined.
Null == "null"

\* The inspector process right after Shell.cmd() spawned it: running, the
\* result promise pending, main not yet shutting down.
ProcStart ==
    [stdinEnded |-> FALSE, exited |-> FALSE, code |-> 0, signal |-> Null,
     endedFirst |-> FALSE, result |-> "pending", main |-> "running"]

\* No table is loaded and no pure function is being called.
OtherIdle ==
    /\ badRanges = <<>>
    /\ startOfInodeTableByGroup = <<>>
    /\ disk = <<>>
    /\ proc = ProcStart
    /\ query = [fn |-> "none"]
    /\ answer = [done |-> FALSE]
    /\ WalkIdle

Init == MuxInit /\ SessInit /\ OtherIdle

\* A caller calls next().
CallNext ==
    /\ Len(calls) < MaxCalls
    /\ next("client")
    /\ UNCHANGED <<streamState, disposedAt, closedAt, sessVars, otherVars>>

\* The stream emits 'data'.
StreamData ==
    /\ streamState = "open"
    /\ attached
    /\ \E chunk \in Chunks :
          /\ nbytes + Len(chunk) <= MaxStream
          /\ onData(chunk)
    /\ UNCHANGED <<streamState, disposedAt, closedAt, sessVars, otherVars>>

\* The stream emits 'end'; the listener runs if it is still attached.
StreamEnd ==
    /\ streamState = "open"
    /\ streamState' = "ended"
    /\ closedAt' = IF closedAt = -1 THEN Len(calls) ELSE closedAt
    /\ IF attached THEN onEnd ELSE UNCHANGED <<found, sinceLastMatch, streamError,
                                              promiseResolvers, attached, calls, arrived, nbytes>>
    /\ UNCHANGED <<disposedAt, sessVars, otherVars>>

\* The stream emits 'error' and is destroyed: nothing is delivered afterwards.
StreamError ==
    /\ streamState # "errored"
    /\ streamState' = "errored"
    /\ closedAt' = IF closedAt = -1 THEN Len(calls) ELSE closedAt
    /\ IF attached THEN onError ELSE UNCHANGED <<found, sinceLastMatch, streamError,
                                                promiseResolvers, attached, calls, arrived, nbytes>>
    /\ UNCHANGED <<disposedAt, sessVars, otherVars>>

\* A caller calls dispose().
Dispose ==
    /\ dispose
    /\ UNCHANGED <<streamState, closedAt, sessVars, otherVars>>

Next == CallNext \/ StreamData \/ StreamEnd \/ StreamError \/ Dispose

Spec == Init /\ [][Next]_vars

---------------------------------------------------------------------------
(* The multiplexer on a stream that only delivers data, with the chunks    *)
(* delivered so far kept as history in `answer`.                           *)

\* The stream emits 'data' with a chunk.
ChunkData ==
    /\ \E chunk \in Chunks :
          /\ nbytes + Len(chunk) <= MaxStream
          /\ onData(chunk)
          /\ answer' = [done |-> FALSE,
                        chunks |-> IF "chunks" \in DOMAIN answer
                                   THEN Append(answer.chunks, chunk)
                                   ELSE <<chunk>>]
    /\ UNCHANGED <<streamState, disposedAt, closedAt, sessVars, envVars, query, walkVars>>

ChunkNext == ChunkData \/ CallNext

ChunkSpec == Init /\ [][ChunkNext]_vars

---------------------------------------------------------------------------
(* The debugfs session: openDebugfs, debugfsCmd and main's shutdown, over  *)
(* an inspector that answers the command lines it reads in order, each     *)
(* with one reply ended by one prompt.                                     *)

\* The command texts callers send.
Cmds == {"1", "2"}

\* What the inspector prints before its first prompt.
BannerUnit == <<"b">>

\* What the inspector's command c prints.
Reply(c) == <<"r", c>>

\* What the inspector prints between two prompts for the command line c: the
\* echoed command, a line break, the command's output.
UnitFor(c) == <<c, "\n">> \o Reply(c)

\* s.match(/(?<=\n)(?:.|\s)*/) and what debugfsCmd does with it: it throws
\* when s has no line break, else returns everything after the first one.
StripEcho(s) ==
    LET nl == IndexOf(s, <<"\n">>)
    IN  IF nl = -1 THEN [throw |-> TRUE, text |-> <<>>]
        ELSE [throw |-> FALSE, text |-> SubstringFrom(s, nl + 1)]

\* The state after Shell.cmd() has spawned the inspector.
SessionInit == MuxInit /\ SessInit /\ OtherIdle

\* openDebugfs, after the await: expect(stdout, 'debugfs:') and the next()
\* call that discards the first prompt.
openDebugfs_keepBanner ==
    /\ spc = "start"
    /\ spc' = "open"
    /\ UNCHANGED <<muxVars, debugfsStdin, inspRead, inspBanner, pipe, otherVars>>

openDebugfs ==
    /\ spc = "start"
    /\ spc' = "open"
    /\ next("banner")
    /\ UNCHANGED <<streamState, disposedAt, closedAt,
                   debugfsStdin, inspRead, inspBanner, pipe, otherVars>>

\* debugfsCmd(cmd) up to its await: sendDebugfsCommand(cmd), then next().
debugfsCmd(cmd) ==
    /\ debugfsStdin' = Append(debugfsStdin, cmd)
    /\ next(cmd)

\* A caller issues a command, whether or not earlier replies have come.
IssueCommand ==
    /\ spc = "open"
    /\ Len(debugfsStdin) < MaxCmds
    /\ \E cmd \in Cmds : debugfsCmd(cmd)
    /\ UNCHANGED <<streamState, disposedAt, closedAt, spc, inspRead, inspBanner, pipe,
                   otherVars>>

\* The inspector starts: banner and first prompt.
InspectorBanner ==
    /\ ~inspBanner
    /\ streamState = "open"
    /\ inspBanner' = TRUE
    /\ pipe' = pipe \o Encode(BannerUnit \o prompt)
    /\ UNCHANGED <<muxVars, spc, debugfsStdin, inspRead, otherVars>>

\* The inspector reads its next command line and answers it.
InspectorReply ==
    /\ inspBanner
    /\ streamState = "open"
    /\ inspRead < Len(debugfsStdin)
    /\ inspRead' = inspRead + 1
    /\ pipe' = pipe \o Encode(UnitFor(debugfsStdin[inspRead + 1]) \o prompt)
    /\ UNCHANGED <<muxVars, spc, debugfsStdin, inspBanner, otherVars>>

\* stdout delivers some of the inspector's output as one chunk.
SessionData ==
    /\ spc = "open"
    /\ streamState = "open"
    /\ attached
    /\ \E k \in 1..Len(pipe) :
          /\ k <= MaxChunk
          /\ onData(SubSeq(pipe, 1, k))
          /\ pipe' = SubSeq(pipe, k + 1, Len(pipe))
    /\ UNCHANGED <<streamState, disposedAt, closedAt, spc, debugfsStdin, inspRead, inspBanner,
                   otherVars>>

\* The inspector exits: stdout ends once its output has been read.
SessionEnd ==
    /\ spc = "open"
    /\ pipe = <<>>
    /\ StreamEnd

\* stdout fails.
SessionError ==
    /\ spc = "open"
    /\ StreamError

\* main: debugfs.dispose()
MainDispose ==
    /\ spc = "open"
    /\ Dispose

SessionNext ==
    \/ openDebugfs
    \/ IssueCommand
    \/ InspectorBanner
    \/ InspectorReply
    \/ SessionData
    \/ SessionEnd
    \/ SessionError
    \/ MainDispose

SessionSpec == SessionInit /\ [][SessionNext]_vars

---------------------------------------------------------------------------
(* debugfsCmd after its await, on an arbitrary raw response.               *)

\* The characters of a raw response: command text, line break, output.
RawChars == {"c", "\n", "r"}

EchoInit ==
    /\ MuxInit /\ SessInit
    /\ badRanges = <<>>
    /\ startOfInodeTableByGroup = <<>>
    /\ disk = <<>>
    /\ proc = ProcStart
    /\ query \in [fn : {"debugfsCmd"}, raw : SeqsUpTo(RawChars, MaxRaw)]
    /\ answer = [done |-> FALSE]
    /\ WalkIdle

\* debugfsCmd resumes with the raw response s: match, throw or return.
ResumeDebugfsCmd ==
    /\ query.fn = "debugfsCmd"
    /\ ~answer.done
    /\ answer' = [done |-> TRUE] @@ StripEcho(query.raw)
    /\ UNCHANGED <<muxVars, sessVars, envVars, query, walkVars>>

EchoSpec == EchoInit /\ [][ResumeDebugfsCmd]_vars

\* Nothing follows the first line of the raw response s: s has no line
\* break, or its first line break is its last character.
NoContentAfterEcho(s) ==
    \/ \A k \in 1..Len(s) : s[k] # "\n"
    \/ /\ s[Len(s)] = "\n"
       /\ \A k \in 1..(Len(s) - 1) : s[k] # "\n"

\* C16: debugfsCmd throws whenever nothing follows the first line of the raw
\* response, and never returns an empty reply.
EmptyReplyFails ==
    answer.done =>
        /\ NoContentAfterEcho(query.raw) => answer.throw
        /\ ~answer.throw => answer.text # <<>>

---------------------------------------------------------------------------
(* main's shutdown and the exit of the inspector process.                  *)

\* What the 'close' event of the child process may carry: (code, signal).
ExitStatuses ==
    { [code |-> 0, signal |-> Null], [code |-> 1, signal |-> Null],
      [code |-> -1, signal |-> "SIGKILL"] }

\* Shell.cmd's finish() for openDebugfs's options (no returnExitCode, no
\* abortSignal), with exitCode = signal ?? code: the result promise resolves
\* if exitCode === 0 and rejects otherwise.
finish(status) ==
    IF status.signal = Null /\ status.code = 0 THEN "resolved" ELSE "rejected"

\* main after recurse returned: debugfs.dispose(); debugfsStdin.end(); then
\* the await of promiseForDebugfsExit begins.
MainShutdown ==
    /\ spc = "open"
    /\ proc.main = "running"
    /\ dispose
    /\ proc' = [proc EXCEPT !.stdinEnded = TRUE, !.main = "awaitExit"]
    /\ UNCHANGED <<streamState, closedAt, sessVars, badRanges, startOfInodeTableByGroup,
                   disk, pureVars, walkVars>>

\* The child process emits 'close' (its stdout has closed before): finish().
ProcClose ==
    /\ ~proc.exited
    /\ streamState # "open"
    /\ \E status \in ExitStatuses :
          proc' = [proc EXCEPT !.exited = TRUE, !.code = status.code,
                               !.signal = status.signal,
                               !.endedFirst = proc.stdinEnded,
                               !.result = finish(status)]
    /\ UNCHANGED <<muxVars, sessVars, badRanges, startOfInodeTableByGroup, disk,
                   pureVars, walkVars>>

\* main: await promiseForDebugfsExit settles; main returns or throws.
MainAwaitExit ==
    /\ proc.main = "awaitExit"
    /\ proc.result # "pending"
    /\ proc' = [proc EXCEPT !.main = IF proc.result = "resolved" THEN "done" ELSE "failed"]
    /\ UNCHANGED <<muxVars, sessVars, badRanges, startOfInodeTableByGroup, disk,
                   pureVars, walkVars>>

\* main issues its commands before it shuts down.
MainCommand ==
    /\ proc.main = "running"
    /\ IssueCommand

ShutdownNext ==
    \/ openDebugfs
    \/ MainCommand
    \/ InspectorBanner
    \/ InspectorReply
    \/ SessionData
    \/ SessionEnd
    \/ SessionError
    \/ MainShutdown
    \/ ProcClose
    \/ MainAwaitExit

ShutdownSpec == SessionInit /\ [][ShutdownNext]_vars

\* C15: if the inspector exits, with whatever code or signal, after main
\* closed its input channel, the run completes successfully.
ExitAfterCloseIsSuccess ==
    (proc.main \in {"done", "failed"} /\ proc.endedFirst) => proc.main = "done"

---------------------------------------------------------------------------
(* Claims about the multiplexer, checked under Spec.                       *)

Resolved(n) == calls[n].st = "resolved"
Rejected(n) == calls[n].st = "rejected"
Pending(n)  == calls[n].st = "pending"

\* C1: the Nth call to next() that is resolved is resolved with the Nth
\* response to arrive, whether the response was buffered before the call or
\* the caller was suspended until it arrived; a call stays suspended only
\* while its response has not arrived.
FifoLaw ==
    \A n \in 1..Len(calls) :
        /\ Resolved(n) => n <= Len(arrived) /\ calls[n].val = arrived[n]
        /\ Pending(n) => n > Len(arrived)

\* C1 witness: one call was served from the buffer without suspending and
\* another was suspended and later resolved, with different responses.
FifoLawWitness ==
    \E i, j \in 1..Len(calls) :
        /\ Resolved(i) /\ calls[i].how = "buffered"
        /\ Resolved(j) /\ calls[j].how = "suspended"
        /\ calls[i].val # calls[j].val

\* C3: after dispose() every call that was outstanding is rejected and every
\* later call fails with the "disposed" error.
DisposeFailsEveryCall ==
    disposedAt # -1 =>
        \A n \in 1..Len(calls) :
            /\ n <= disposedAt => ~Pending(n)
            /\ n > disposedAt => Rejected(n) /\ calls[n].err = "disposed"

\* C4 as stated: once the stream has ended or errored, every call that was
\* outstanding is rejected and every later call fails.
StreamCloseFailsEveryCall ==
    closedAt # -1 =>
        \A n \in 1..Len(calls) :
            /\ n <= closedAt => ~Pending(n)
            /\ n > closedAt => Rejected(n)

\* C4 as amended: once the stream has ended or errored, every call that was
\* outstanding is rejected, and every later call either fails or returns,
\* without suspending, a response that was already buffered.
StreamCloseFailsOrDrains ==
    closedAt # -1 =>
        \A n \in 1..Len(calls) :
            /\ n <= closedAt => ~Pending(n)
            /\ n > closedAt =>
                  \/ Rejected(n)
                  \/ Resolved(n) /\ calls[n].how = "buffered"

\* C4 witness: the stream closed while a caller was suspended, rejecting it,
\* and a call made afterwards failed as well.
StreamCloseWitness ==
    /\ closedAt # -1
    /\ \E n \in 1..Len(calls) :
          n <= closedAt /\ Rejected(n) /\ calls[n].err \in {"ended", "error"}
    /\ \E n \in 1..Len(calls) : n > closedAt /\ Rejected(n)

\* What lookForPrompt makes of a text that arrives in one piece with no
\* caller waiting.
InOnePiece(text) ==
    lookForPrompt([slm |-> text, found |-> <<>>, rs |-> <<>>, cs |-> <<>>,
                   arrived |-> <<>>])

\* The chunks delivered so far, and a sequence of chunks as one chunk.
ChunksSoFar == IF "chunks" \in DOMAIN answer THEN answer.chunks ELSE <<>>

RECURSIVE Concat(_)
Concat(cs) == IF cs = <<>> THEN <<>> ELSE Head(cs) \o Concat(Tail(cs))

\* The values of the resolved calls, in call order.
ResolvedValues ==
    LET done == SelectSeq(calls, LAMBDA c : c.st = "resolved")
    IN  [k \in 1..Len(done) |-> done[k].val]

\* C23: the responses delivered depend only on the bytes delivered so far,
\* not on where they were cut into chunks: they are the responses the same
\* bytes give when they arrive in one piece, and they reach the callers and
\* the buffer in stream order.
ChunkingIrrelevant ==
    LET whole == InOnePiece(DecoderWrite(Concat(ChunksSoFar)))
    IN  /\ arrived = whole.arrived
        /\ sinceLastMatch = whole.slm
        /\ ResolvedValues \o found = arrived

\* C23 witness: the stream xd:d: cut into xd and :d: : the first prompt is
\* split across the two chunks and the second chunk completes two
\* responses, x and the empty one.
ChunkingWitness ==
    /\ ChunksSoFar = << <<120, 100>>, <<58, 100, 58>> >>
    /\ arrived = << <<"x">>, <<>> >>
    /\ Len(calls) = 1 /\ Resolved(1)
    /\ found = << <<>> >>

\* C25: the buffer of arrived responses (found) and the queue of suspended
\* callers (promiseResolvers) are never both non-empty, and after a stream
\* end, a stream error or dispose() the queue of suspended callers is empty.
QueuesExclusive ==
    /\ ~(Len(found) > 0 /\ Len(promiseResolvers) > 0)
    /\ (streamState # "open" \/ disposedAt # -1 \/ ~attached) => promiseResolvers = <<>>

\* C25 witness: a caller was suspended, the stream then ended and rejected
\* it, a later call threw, and the queue is empty.
QueuesExclusiveWitness ==
    /\ streamState = "ended"
    /\ disposedAt = -1
    /\ promiseResolvers = <<>>
    /\ Len(calls) = 2
    /\ calls[1].how = "suspended" /\ Rejected(1)
    /\ calls[2].how = "threw"

---------------------------------------------------------------------------
(* Claims about the session, checked under SessionSpec.                    *)

\* The index in calls of the k-th next() call made by debugfsCmd.
CommandCall(k) ==
    CHOOSE n \in 1..Len(calls) :
        /\ calls[n].cmd # "banner"
        /\ Cardinality({m \in 1..n : calls[m].cmd # "banner"}) = k

NumCommandCalls == Cardinality({m \in 1..Len(calls) : calls[m].cmd # "banner"})

\* C2: the command lines are written in the order in which the matching
\* next() calls are queued, and, the inspector answering in order with one
\* prompt-ended reply each, every caller receives the reply to its own
\* command.
WriteOrderIsResolutionOrder ==
    /\ NumCommandCalls = Len(debugfsStdin)
    /\ \A k \in 1..Len(debugfsStdin) :
          LET n == CommandCall(k) IN
          /\ calls[n].cmd = debugfsStdin[k]
          /\ Resolved(n) =>
                StripEcho(calls[n].val) = [throw |-> FALSE, text |-> Reply(debugfsStdin[k])]

\* C2 witness: two different commands were issued, the second while the
\* first was still unanswered, and both callers have their replies.
PipelinedWitness ==
    /\ Len(debugfsStdin) >= 2
    /\ debugfsStdin[1] # debugfsStdin[2]
    /\ LET n1 == CommandCall(1)
           n2 == CommandCall(2)
       IN  /\ calls[n2].ahead >= 1
           /\ Resolved(n1) /\ calls[n1].how = "suspended"
           /\ Resolved(n2) /\ calls[n2].how = "suspended"

\* C5: the first unit of the stream (the banner) goes to a next() call made
\* before any command is written and never to a debugfsCmd caller; the k-th
\* command issued receives unit k+1.
BannerIsDiscarded ==
    /\ Len(debugfsStdin) > 0 => Len(calls) > 0 /\ calls[1].cmd = "banner"
    /\ Len(calls) > 0 /\ Resolved(1) => calls[1].cmd = "banner" /\ calls[1].val = arrived[1]
    /\ \A k \in 1..NumCommandCalls :
          LET n == CommandCall(k) IN
          Resolved(n) => /\ Len(arrived) >= k + 1
                         /\ calls[n].val = arrived[k + 1]
                         /\ calls[n].val # arrived[1]

\* C5 witness: the banner went to openDebugfs's call and two commands got
\* the second and third units.
BannerWitness ==
    /\ Len(calls) = 3
    /\ Resolved(1) /\ calls[1].val = BannerUnit
    /\ Resolved(2) /\ Resolved(3)
    /\ Len(arrived) = 3

---------------------------------------------------------------------------
(* The bad-range index.                                                    *)

\* The condition of rangeIsSafe's if: [start, end) overlaps the bad range.
OverlapsRange_touching(range, start, end) ==
    end >= range.start /\ start < (range.start + range.length)
OverlapsRange(range, start, end) ==
    end > range.start /\ start < (range.start + range.length)

\* rangeIsSafe's for loop over badRanges, from the i-th range on.
RECURSIVE rangeIsSafeFrom(_, _, _)
rangeIsSafeFrom(i, start, end) ==
    IF i > Len(badRanges) THEN TRUE
    ELSE IF OverlapsRange(badRanges[i], start, end) THEN FALSE
    ELSE rangeIsSafeFrom(i + 1, start, end)

rangeIsSafe(start, end) == rangeIsSafeFrom(1, start, end)

\* Bad-range configurations: every array of up to MaxRanges ranges, unsorted,
\* possibly empty, overlapping or adjacent (the program's literal has six
\* ranges near byte 2^37, beyond the model's integers).
RangeSet == [start : 0..MaxAddr, length : 0..MaxLen]

RECURSIVE RangeArrays(_)
RangeArrays(n) ==
    IF n = 0 THEN {<<>>}
    ELSE LET shorter == RangeArrays(n - 1)
         IN  shorter \cup {Append(a, r) : a \in {t \in shorter : Len(t) = n - 1}, r \in RangeSet}

RangeInit ==
    /\ MuxInit /\ SessInit
    /\ badRanges \in RangeArrays(MaxRanges)
    /\ startOfInodeTableByGroup = <<>>
    /\ disk = <<>>
    /\ proc = ProcStart
    /\ query \in [fn : {"rangeIsSafe"}, start : 0..MaxAddr, end : 0..MaxAddr]
    /\ answer = [done |-> FALSE]
    /\ WalkIdle

\* rangeIsSafe(start, end) is called.
CallRangeIsSafe ==
    /\ query.fn = "rangeIsSafe"
    /\ ~answer.done
    /\ answer' = [done |-> TRUE, value |-> rangeIsSafe(query.start, query.end)]
    /\ UNCHANGED <<muxVars, sessVars, envVars, query, walkVars>>

RangeNext == CallRangeIsSafe

RangeSpec == RangeInit /\ [][RangeNext]_vars

\* C6: overlaps(start, end), the negation of rangeIsSafe(start, end), is
\* true iff some configured range r has end > r.start and
\* start < r.start + r.length; touching a range at an endpoint is no overlap.
OverlapRule ==
    answer.done =>
        ((~answer.value) <=>
            \E i \in 1..Len(badRanges) :
                /\ query.end > badRanges[i].start
                /\ query.start < badRanges[i].start + badRanges[i].length)

\* C6 witness: the interval ends exactly where the only bad range starts and
\* is found safe.
OverlapRuleWitness ==
    /\ answer.done
    /\ Len(badRanges) = 1
    /\ badRanges[1].length > 0
    /\ query.start < query.end
    /\ query.end = badRanges[1].start
    /\ answer.value = TRUE

---------------------------------------------------------------------------
(* The inode table locator.                                                *)

InodesPerGroup  == 8028
InodeRecordSize == 256
BlockSize       == 4096

\* JavaScript's a % b for b > 0: the remainder has the sign of a.
JsRem(a, b) == IF a >= 0 THEN a % b ELSE -((-a) % b)

\* getAddressOfInode(inode): throws when the group is not in the map.
getAddressOfInode_noCheck(inode) ==
    LET group == (inode - 1) \div InodesPerGroup
        index == JsRem(inode - 1, InodesPerGroup)
        startOfInodeTable == IF group \in DOMAIN startOfInodeTableByGroup
                             THEN startOfInodeTableByGroup[group] ELSE 0
    IN  [throw |-> FALSE, value |-> startOfInodeTable + (index * InodeRecordSize)]
getAddressOfInode_zeroBased(inode) ==
    LET group == inode \div InodesPerGroup
        index == JsRem(inode, InodesPerGroup)
    IN  IF group \notin DOMAIN startOfInodeTableByGroup
        THEN [throw |-> TRUE, value |-> 0]
        ELSE [throw |-> FALSE,
              value |-> startOfInodeTableByGroup[group] + (index * InodeRecordSize)]
getAddressOfInode(inode) ==
    LET group == (inode - 1) \div InodesPerGroup
        index == JsRem(inode - 1, InodesPerGroup)
    IN  IF group \notin DOMAIN startOfInodeTableByGroup
        THEN [throw |-> TRUE, value |-> 0]
        ELSE [throw |-> FALSE,
              value |-> startOfInodeTableByGroup[group] + (index * InodeRecordSize)]

\* The maps getStartOfInodeTableByGroup can build: each listed group with
\* 4096 times the block its inode table is at.
TableBlocks == {1, 3}

GroupMaps ==
    UNION {[G -> {BlockSize * b : b \in TableBlocks}] : G \in SUBSET (0..MaxGroup)}

\* Inode numbers at the edges of each group, and 0.
InodeInputs ==
    {0} \cup UNION {{g * InodesPerGroup + 1, g * InodesPerGroup + 2,
                     g * InodesPerGroup + InodesPerGroup} : g \in 0..(MaxGroup + 1)}

AddrInit ==
    /\ MuxInit /\ SessInit
    /\ badRanges = <<>>
    /\ startOfInodeTableByGroup \in GroupMaps
    /\ disk = <<>>
    /\ proc = ProcStart
    /\ query \in [fn : {"getAddressOfInode"}, inode : InodeInputs]
    /\ answer = [done |-> FALSE]
    /\ WalkIdle

\* getAddressOfInode(inode) is called.
CallGetAddressOfInode ==
    /\ query.fn = "getAddressOfInode"
    /\ ~answer.done
    /\ answer' = [done |-> TRUE] @@ getAddressOfInode(query.inode)
    /\ UNCHANGED <<muxVars, sessVars, envVars, query, walkVars>>

AddrNext == CallGetAddressOfInode

AddrSpec == AddrInit /\ [][AddrNext]_vars

\* C7: for an inode number n >= 1 whose group is in the map, the address is
\* tableOffset[floor((n-1)/8028)] + ((n-1) mod 8028) * 256: inode 1 is at
\* tableOffset[0], inode 8028 at tableOffset[0] + 8027*256, inode 8029 at
\* tableOffset[1].
InodeAddressFormula ==
    LET n == query.inode
        g == (n - 1) \div 8028
        tableOffset == startOfInodeTableByGroup
    IN  answer.done /\ n >= 1 /\ g \in DOMAIN tableOffset =>
            /\ ~answer.throw
            /\ answer.value = tableOffset[g] + ((n - 1) % 8028) * 256
            /\ n = 1 => answer.value = tableOffset[0]
            /\ n = 8028 => answer.value = tableOffset[0] + 8027 * 256
            /\ n = 8029 => answer.value = tableOffset[1]

\* C7 witness: the address of inode 8029 was computed from group 1's table.
InodeAddressWitness ==
    /\ answer.done
    /\ query.inode = 8029
    /\ 1 \in DOMAIN startOfInodeTableByGroup
    /\ ~answer.throw
    /\ answer.value = startOfInodeTableByGroup[1]

---------------------------------------------------------------------------
(* Buffers, inode records and the two block-resolution algorithms.         *)
(* A buffer is a function from 32-bit word indices to values; words it     *)
(* does not list are zero (parseHex leaves unmatched bytes zero).          *)

\* buf.readUint32LE(off), off a multiple of 4.
readUint32LE(buf, off) ==
    IF (off \div 4) \in DOMAIN buf THEN buf[off \div 4] ELSE 0

\* buf.readUint16LE(off), off a multiple of 2.
readUint16LE(buf, off) ==
    IF off % 4 = 0 THEN readUint32LE(buf, off) % 65536
    ELSE readUint32LE(buf, off - 2) \div 65536

\* buf.slice(from, from + 60), from a multiple of 4.
Slice(buf, from) ==
    [w \in {k - (from \div 4) : k \in {j \in DOMAIN buf : j >= from \div 4 /\ j < (from \div 4) + 15}}
        |-> buf[w + (from \div 4)]]

S_IFDIR   == 16384
S_IFREG   == 32768
S_EXTENTS == 524288

\* Boolean(value & bit), bit a power of two.
HasBit(value, bit) == (value \div bit) % 2 = 1

isDir(buf) == HasBit(readUint16LE(buf, 0), S_IFDIR)

isFile(buf) == HasBit(readUint16LE(buf, 0), S_IFREG)

usesExtents(buf) == HasBit(readUint32LE(buf, 32), S_EXTENTS)

\* Math.ceil(a / b) for a >= 0, b > 0.
Ceil(a, b) == (a + b - 1) \div b

\* get blocksInUse(): the bytes at offset 0x04 of the record, in blocks.
blocksInUse_floor(buf) == readUint32LE(buf, 4) \div 4096
blocksInUse(buf) == Ceil(readUint32LE(buf, 4), 4096)

get_i_block(buf) == Slice(buf, 40)

blockIdsPerBlock == 4096 \div 4

blockCounts == [L1 |-> 1024, L2 |-> 1024 * 1024, L3 |-> 1024 * 1024 * 1024]

Min(a, b) == IF a < b THEN a ELSE b

\* An inode record: mode, size in bytes, flags and the words of i_block.
InodeBuf(mode, size, flags, iblock) ==
    (0 :> mode) @@ (1 :> size) @@ (8 :> flags) @@
    [w \in {k + 10 : k \in DOMAIN iblock} |-> iblock[w - 10]]

\* Disk layout: group 0's inode table at block 100, data from block 2000.
\* Block 97, block 2001 and the record of inode 19 are bad.
WalkBadRanges ==
    << [start |-> 2001 * 4096, length |-> 4096],
       [start |-> 97 * 4096, length |-> 4096],
       [start |-> 100 * 4096 + 18 * 256, length |-> 256] >>

\* The statistics output lists one group, so an inode number above 8028 (the
\* entry g of the root menu) belongs to a group the table does not know.
WalkGroupMaps ==
    { (0 :> 4096 * 100) }

\* i_block of an extent tree root with one index entry -> block 2003.
ExtentRoot == (0 :> 62218 + 65536) @@ (1 :> 4 + 65536) @@ (4 :> 2003)

\* Block 2003: an extent leaf with one extent, 1 block at block 2000.
ExtentLeaf == (0 :> 62218 + 65536) @@ (1 :> 340) @@ (4 :> 1) @@ (5 :> 2000)

DiskInodes ==
    (2    :> InodeBuf(16877, 4096, 0, (0 :> 2004))) @@         \* root directory
    (11   :> InodeBuf(33188, 4096, 0, (0 :> 2000))) @@         \* regular file
    (12   :> InodeBuf(16877, 4096, 0, (0 :> 2002))) @@         \* directory
    (13   :> InodeBuf(33188, 4096, 0, (0 :> 2001))) @@         \* file, bad block
    (14   :> InodeBuf(41471, 1, 0, (0 :> 97))) @@              \* symlink to "a"
    (15   :> InodeBuf(25008, 0, 0, (0 :> 2049))) @@            \* block device 8:1
    (16   :> InodeBuf(49645, 0, 0, <<>>)) @@                   \* socket
    (19   :> InodeBuf(33188, 4096, 0, (0 :> 2000))) @@         \* file, bad record
    (20   :> InodeBuf(33188, 4096, S_EXTENTS, ExtentRoot))     \* file with extents

\* The blocks the walk may dump.
DiskBlocks == (2003 :> ExtentLeaf)

blockIsSafe(blockNum) == rangeIsSafe(blockNum * 4096, (blockNum + 1) * 4096)

\* parseHex(4096, await debugfsCmd(`bd ${blockNum}`)): the block's words.
BlockDump(blockNum) ==
    IF blockNum \in DOMAIN disk THEN disk[blockNum] ELSE <<>>

\* The result of a resolution: the verdict, the blocks dumped on the way (in
\* order, each with its level and the number of data blocks it was asked to
\* cover) and the number of leaf entries or data-block pointers tested.
Verdict(safe, fetched, count) == [safe |-> safe, fetched |-> fetched, count |-> count]

Fetch(block, level, want) == [block |-> block, level |-> level, want |-> want]

\* Entry i of a leaf node: firstBlockNum and blockCount.
leafEntry_noCount(buf, i) ==
    [firstBlockNum |-> readUint32LE(buf, 12 * (i + 1) + 8), blockCount |-> 1]
leafEntry(buf, i) ==
    [firstBlockNum |-> readUint32LE(buf, 12 * (i + 1) + 8),
     blockCount    |-> readUint16LE(buf, 12 * (i + 1) + 4)]

\* extentsAreSafe(buf): the for loop from entry i on, after the fetches and
\* tests of acc.
RECURSIVE extentsLoop(_, _, _)
extentsLoop(buf, i, acc) ==
    LET entryCount == readUint16LE(buf, 2)
        depth      == readUint16LE(buf, 6)
        leaf       == depth = 0
    IN  IF i >= entryCount THEN Verdict(TRUE, acc.fetched, acc.count)
        ELSE IF leaf
        THEN LET e == leafEntry(buf, i)
             IN  IF ~rangeIsSafe(e.firstBlockNum * 4096,
                                 (e.firstBlockNum + e.blockCount) * 4096)
                 THEN Verdict(FALSE, acc.fetched, acc.count + 1)
                 ELSE extentsLoop(buf, i + 1, Verdict(TRUE, acc.fetched, acc.count + 1))
        ELSE LET child == readUint32LE(buf, 12 * (i + 1) + 4)
                 sub   == extentsLoop(BlockDump(child), 0,
                             Verdict(TRUE, Append(acc.fetched, Fetch(child, 0, 0)), acc.count))
             IN  IF ~sub.safe THEN sub
                 ELSE extentsLoop(buf, i + 1, sub)

extentsAreSafe(buf) == extentsLoop(buf, 0, Verdict(TRUE, <<>>, 0))

\* A pointer loop, for (i = 0; i < n; i++) if (!blockIsSafe(word i)) return
\* false: the verdict and the number of pointers tested.
pointerLoop(buf, n) ==
    LET bad == {i \in 0..(n - 1) : ~blockIsSafe(readUint32LE(buf, i * 4))}
    IN  IF bad = {} THEN [safe |-> TRUE, count |-> IF n > 0 THEN n ELSE 0]
        ELSE [safe |-> FALSE,
              count |-> (CHOOSE i \in bad : \A j \in bad : i <= j) + 1]

blocksL1AreSafe(blockNum, level1Blocks, acc) ==
    LET r == pointerLoop(BlockDump(blockNum), level1Blocks)
    IN  Verdict(r.safe, Append(acc.fetched, Fetch(blockNum, 1, level1Blocks)),
                acc.count + r.count)

\* The data blocks child i of an indirect block has to cover, when the block
\* covers `total` data blocks and each child at most `cap`:
\* (Math.min(total, (i + 1) * cap) % cap) || cap
childBlocks_noMin(total, i, cap) ==
    LET rem == total % cap
    IN  IF rem = 0 THEN cap ELSE rem
childBlocks(total, i, cap) ==
    LET rem == Min(total, (i + 1) * cap) % cap
    IN  IF rem = 0 THEN cap ELSE rem

\* blocksL2AreSafe's for loop from pointer i on.
RECURSIVE blocksL2Loop(_, _, _, _, _)
blocksL2Loop(buffer, i, pointers, level2Blocks, acc) ==
    IF i >= pointers THEN acc
    ELSE LET pointer == readUint32LE(buffer, i * 4)
             level1Blocks == childBlocks(level2Blocks, i, blockIdsPerBlock)
         IN  IF ~blockIsSafe(pointer) THEN Verdict(FALSE, acc.fetched, acc.count)
             ELSE LET sub == blocksL1AreSafe(pointer, level1Blocks, acc)
                  IN  IF ~sub.safe THEN sub
                      ELSE blocksL2Loop(buffer, i + 1, pointers, level2Blocks, sub)

blocksL2AreSafe(blockNum, level2Blocks, acc) ==
    blocksL2Loop(BlockDump(blockNum), 0, Ceil(level2Blocks, blockIdsPerBlock),
                 level2Blocks,
                 Verdict(TRUE, Append(acc.fetched, Fetch(blockNum, 2, level2Blocks)),
                         acc.count))

\* blocksL3AreSafe's for loop from pointer i on.
RECURSIVE blocksL3Loop(_, _, _, _, _)
blocksL3Loop(buffer, i, pointers, level3Blocks, acc) ==
    IF i >= pointers THEN acc
    ELSE LET pointer == readUint32LE(buffer, i * 4)
             level2Blocks == childBlocks(level3Blocks, i, blockIdsPerBlock * blockIdsPerBlock)
         IN  IF ~blockIsSafe(pointer) THEN Verdict(FALSE, acc.fetched, acc.count)
             ELSE LET sub == blocksL2AreSafe(pointer, level2Blocks, acc)
                  IN  IF ~sub.safe THEN sub
                      ELSE blocksL3Loop(buffer, i + 1, pointers, level3Blocks, sub)

blocksL3AreSafe(blockNum, level3Blocks, acc) ==
    blocksL3Loop(BlockDump(blockNum), 0,
                 Ceil(level3Blocks, blockIdsPerBlock * blockIdsPerBlock),
                 level3Blocks,
                 Verdict(TRUE, Append(acc.fetched, Fetch(blockNum, 3, level3Blocks)),
                         acc.count))

\* Math.min(12, blocksInUse)
directCount_13(inUse) == Min(13, inUse)
directCount(inUse) == Min(12, inUse)

\* blocksAreSafe(i_block), for the inode record buf.
blocksAreSafe(buf, i_block) ==
    LET inUse        == blocksInUse(buf)
        directBlocks == directCount(inUse)
        level1Blocks == Min(blockCounts.L1, inUse - directBlocks)
        level2Blocks == Min(blockCounts.L2, inUse - directBlocks - level1Blocks)
        level3Blocks == Min(blockCounts.L3, inUse - directBlocks - level1Blocks - level2Blocks)
        direct       == pointerLoop(i_block, directBlocks)
        afterDirect  == Verdict(direct.safe, <<>>, direct.count)
    IN  IF ~direct.safe THEN afterDirect
        ELSE IF level1Blocks <= 0 THEN afterDirect
        ELSE LET safeL1 == blocksL1AreSafe(readUint32LE(i_block, 12 * 4), level1Blocks,
                                           afterDirect)
             IN  IF ~safeL1.safe THEN safeL1
                 ELSE IF level2Blocks <= 0 THEN safeL1
                 ELSE LET safeL2 == blocksL2AreSafe(readUint32LE(i_block, 13 * 4),
                                                    level2Blocks, safeL1)
                      IN  IF ~safeL2.safe THEN safeL2
                          ELSE IF level3Blocks <= 0 THEN safeL2
                          ELSE blocksL3AreSafe(readUint32LE(i_block, 14 * 4),
                                               level3Blocks, safeL2)

\* dataIsSafe(), for the inode record buf.
dataIsSafe(buf) ==
    LET i_block == get_i_block(buf)
    IN  IF usesExtents(buf) THEN extentsAreSafe(i_block)
        ELSE blocksAreSafe(buf, i_block)

\* inodeIsSafe(inode): throws when getAddressOfInode throws.
inodeIsSafe(inode) ==
    LET address == getAddressOfInode(inode)
    IN  IF address.throw THEN [throw |-> TRUE, value |-> FALSE]
        ELSE [throw |-> FALSE,
              value |-> rangeIsSafe(address.value, address.value + 256)]

---------------------------------------------------------------------------
(* extentsAreSafe on extent trees.                                         *)

\* An extent node (header and 12-byte entries): entry k of `ents` gives the
\* words at bytes 12k + 4 and 12k + 8.
ExtNode(depth, ents) ==
    (0 :> 62218 + 65536 * Len(ents)) @@ (1 :> 4 + 65536 * depth) @@
    [w \in {3 * k + 1 : k \in 1..Len(ents)} \cup {3 * k + 2 : k \in 1..Len(ents)} |->
        IF w % 3 = 1 THEN ents[(w - 1) \div 3].w1 ELSE ents[(w - 2) \div 3].w2]

\* A leaf holding the extents es (ee_len at +4, ee_start_lo at +8).
LeafNode(es) == ExtNode(0, [k \in 1..Len(es) |-> [w1 |-> es[k].c, w2 |-> es[k].f]])

\* An index node of the given depth (ei_leaf_lo at +4).
IndexNode(depth, children) ==
    ExtNode(depth, [k \in 1..Len(children) |-> [w1 |-> children[k], w2 |-> 0]])

\* The index node of depth j of a tree: at depth 1 it points to the leaves in
\* blocks 60 and 61, above that to the node of depth j - 1 in block 50 + j - 1.
NodeAt(j) == IF j = 1 THEN IndexNode(1, <<60, 61>>) ELSE IndexNode(j, <<50 + j - 1>>)

\* The tree of depth d whose leaf entries are es in order: for d = 0 the root
\* is the leaf; otherwise the first p entries are in block 60, the others in
\* block 61, below a chain of index nodes.
ExtTree(d, es, p) ==
    IF d = 0 THEN [root |-> LeafNode(es), disk |-> <<>>]
    ELSE [root |-> NodeAt(d),
          disk |-> [b \in {60, 61} \cup {50 + j : j \in 1..(d - 1)} |->
                       IF b = 60 THEN LeafNode(SubSeq(es, 1, p))
                       ELSE IF b = 61 THEN LeafNode(SubSeq(es, p + 1, Len(es)))
                       ELSE NodeAt(b - 50)]]

\* Extents: 1 block at 8, 2 blocks at 10 (bytes 40960..49152), 0 blocks at 12.
LeafEntries == {[f |-> 8, c |-> 1], [f |-> 10, c |-> 2], [f |-> 12, c |-> 0]}

\* Bad ranges: block 11; the two bytes around 49152; block 9, which only
\* touches the extents; the first byte of block 8.
ExtentBadRanges ==
    { << [start |-> 11 * 4096, length |-> 4096] >>,
      << [start |-> 12 * 4096 - 1, length |-> 2] >>,
      << [start |-> 9 * 4096, length |-> 4096] >>,
      << [start |-> 8 * 4096, length |-> 1] >> }

ExtentQueries ==
    {[fn |-> "extentsAreSafe", es |-> es, depth |-> d, split |-> p] :
        es \in SeqsUpTo(LeafEntries, MaxExtLeaves), d \in 0..MaxExtDepth,
        p \in 0..MaxExtLeaves}

ExtentInit ==
    /\ MuxInit /\ SessInit
    /\ badRanges \in ExtentBadRanges
    /\ startOfInodeTableByGroup = <<>>
    /\ proc = ProcStart
    /\ query \in {q \in ExtentQueries :
                     q.split <= Len(q.es) /\ (q.depth = 0 => q.split = 0)}
    /\ disk = ExtTree(query.depth, query.es, query.split).disk
    /\ answer = [done |-> FALSE]
    /\ WalkIdle

\* extentsAreSafe(i_block) is called on the root of the tree.
CallExtentsAreSafe ==
    /\ query.fn = "extentsAreSafe"
    /\ ~answer.done
    /\ answer' = [done |-> TRUE] @@
                    extentsAreSafe(ExtTree(query.depth, query.es, query.split).root)
    /\ UNCHANGED <<muxVars, sessVars, envVars, query, walkVars>>

ExtentSpec == ExtentInit /\ [][CallExtentsAreSafe]_vars

\* overlaps(start, end): the half-open range meets a bad range.
overlaps(start, end) ==
    \E k \in 1..Len(badRanges) :
        end > badRanges[k].start /\ start < badRanges[k].start + badRanges[k].length

\* The positions of the unsafe entries in the sequence es of leaf entries.
UnsafeEntries(es) ==
    {k \in 1..Len(es) : overlaps(es[k].f * 4096, (es[k].f + es[k].c) * 4096)}

Least(S) == CHOOSE x \in S : \A y \in S : x <= y

\* C18: extentsAreSafe is true iff no leaf entry {f, c} of the tree has
\* overlaps(f*4096, (f+c)*4096); the entries are tested in entry order up to
\* the first unsafe one, and the nodes are fetched by block number in that
\* order (the chain of index nodes, block 60, then block 61 only if every
\* entry of block 60 is safe).
ExtentResolution ==
    answer.done =>
        LET es == query.es
            unsafe == UnsafeEntries(es)
            d == query.depth
            chain == [k \in 1..(d - 1) |-> 50 + d - k]
            leaves == IF d = 0 THEN <<>>
                      ELSE IF \E k \in unsafe : k <= query.split THEN <<60>>
                      ELSE <<60, 61>>
        IN  /\ answer.safe <=> unsafe = {}
            /\ answer.count = IF unsafe = {} THEN Len(es) ELSE Least(unsafe)
            /\ [k \in 1..Len(answer.fetched) |-> answer.fetched[k].block] = chain \o leaves

\* C18 witness: a tree of depth 2 with the extents (8,1) in block 60 and
\* (10,2), (8,1) in block 61, block 11 bad: the second entry is unsafe, the
\* third is not tested.
ExtentResolutionWitness ==
    /\ answer.done
    /\ query.depth = 2 /\ query.split = 1
    /\ query.es = <<[f |-> 8, c |-> 1], [f |-> 10, c |-> 2], [f |-> 8, c |-> 1]>>
    /\ badRanges = << [start |-> 11 * 4096, length |-> 4096] >>
    /\ ~answer.safe
    /\ answer.count = 2
    /\ Len(answer.fetched) = 3

---------------------------------------------------------------------------
(* blocksAreSafe on inodes with classic direct/indirect addressing.        *)

\* An ext2/3/4 inode record with the size in bytes (i_size_lo, offset 0x04)
\* and the count of 512-byte sectors (i_blocks_lo, offset 0x1C) given.
SizedInode(size, sectors) == (0 :> 33188) @@ (1 :> size) @@ (7 :> sectors)

\* An inode of `size` bytes: direct pointers 100..111, single-indirect block
\* 200, double-indirect block 300, triple-indirect block 500.
IndirectInode(size) ==
    InodeBuf(33188, size, 0,
             [k \in 0..11 |-> 100 + k] @@ (12 :> 200) @@ (13 :> 300) @@ (14 :> 500))

\* The blocks of the device: block 200 points to data blocks 1000 and 1005
\* (its other words are zero), block 300 to the single-indirect blocks
\* 400, 401, ..., block 500 to the double-indirect blocks 600 and 601.
IndirectDisk ==
    (200 :> (0 :> 1000) @@ (5 :> 1005)) @@
    (300 :> [i \in 0..(MaxL2Children + 1) |-> 400 + i]) @@
    (500 :> (0 :> 600) @@ (1 :> 601))

\* Nothing bad; a direct block bad; a data block of the single-indirect
\* block bad; a single-indirect block under the double-indirect block bad.
IndirectBadRanges ==
    { <<>>,
      << [start |-> 105 * 4096, length |-> 4096] >>,
      << [start |-> 1005 * 4096, length |-> 4096] >>,
      << [start |-> 401 * 4096, length |-> 4096] >> }

\* Block counts around the level boundaries 12 and 12 + 1024, and around
\* each multiple of 1024 under the double-indirect block.
InUseValues ==
    {0, 1, 11, 12, 13, 14, 18, 12 + 1023, 12 + 1024} \cup
    {12 + 1024 + 1024 * k + r : k \in 0..MaxL2Children, r \in {0, 1, 2}}

\* File sizes in bytes with those block counts: a whole number of blocks,
\* and one byte into the last block.
SizesOf(b) == IF b = 0 THEN {0} ELSE {4096 * b, 4096 * (b - 1) + 1}

\* Numbers of data blocks an indirect block whose children cover `cap`
\* blocks each may have to cover: around each multiple of cap.
TotalsFor(cap) ==
    {1} \cup {k * cap + r : k \in 1..(MaxL2Children + 1), r \in {-1, 0, 1}}

IndirectQueries ==
    {[fn |-> "blocksAreSafe", inUse |-> b, size |-> z, blocks |-> 0, child |-> 0, cap |-> 0,
      sectors |-> 0] :
        b \in InUseValues, z \in UNION {SizesOf(v) : v \in InUseValues}}
    \cup
    {[fn |-> "blocksL3AreSafe", inUse |-> 0, size |-> 0, blocks |-> n, child |-> 0, cap |-> 0,
      sectors |-> 0] :
        n \in {1, 2, 1024 + 1}}
    \cup
    {[fn |-> "childBlocks", inUse |-> 0, size |-> 0, blocks |-> n, child |-> i, cap |-> c,
      sectors |-> 0] :
        c \in {blockIdsPerBlock, blockIdsPerBlock * blockIdsPerBlock},
        n \in TotalsFor(blockIdsPerBlock) \cup TotalsFor(blockIdsPerBlock * blockIdsPerBlock),
        i \in 0..(MaxL2Children + 1)}
    \cup
    \* blocksInUse on records with sizes around each multiple of the block
    \* size and sector counts around each multiple of the 8 sectors of a
    \* block: a sparse file has fewer sectors than its size needs, a file
    \* with indirect blocks has more.
    {[fn |-> "blocksInUse", inUse |-> 0, size |-> 4096 * b + r, blocks |-> 0, child |-> 0,
      cap |-> 0, sectors |-> 8 * k + t] :
        b \in 0..MaxSizeBlocks, r \in {0, 1, 4095},
        k \in 0..MaxSizeBlocks, t \in {0, 1, 7}}

IndirectInit ==
    /\ MuxInit /\ SessInit
    /\ badRanges \in IndirectBadRanges
    /\ startOfInodeTableByGroup = <<>>
    /\ proc = ProcStart
    /\ disk = IndirectDisk
    /\ query \in {q \in IndirectQueries :
                     /\ q.fn = "blocksAreSafe" => q.size \in SizesOf(q.inUse)
                     /\ q.fn = "childBlocks" =>
                           /\ q.blocks \in TotalsFor(q.cap)
                           /\ q.child < Ceil(q.blocks, q.cap)}
    /\ answer = [done |-> FALSE]
    /\ WalkIdle

\* dataIsSafe() is called on an inode that does not use extents.
CallBlocksAreSafe ==
    /\ query.fn = "blocksAreSafe"
    /\ ~answer.done
    /\ answer' = [done |-> TRUE] @@ dataIsSafe(IndirectInode(query.size))
    /\ UNCHANGED <<muxVars, sessVars, envVars, query, walkVars>>

\* blocksL3AreSafe(500, level3Blocks) is called.
CallBlocksL3AreSafe ==
    /\ query.fn = "blocksL3AreSafe"
    /\ ~answer.done
    /\ answer' = [done |-> TRUE] @@
                    blocksL3AreSafe(500, query.blocks, Verdict(TRUE, <<>>, 0))
    /\ UNCHANGED <<muxVars, sessVars, envVars, query, walkVars>>

\* One iteration of the loop of blocksL2AreSafe or blocksL3AreSafe computes
\* how many data blocks its child has to cover.
CallChildBlocks ==
    /\ query.fn = "childBlocks"
    /\ ~answer.done
    /\ answer' = [done |-> TRUE, value |-> childBlocks(query.blocks, query.child, query.cap)]
    /\ UNCHANGED <<muxVars, sessVars, envVars, query, walkVars>>

\* The getter blocksInUse is read on a record.
CallBlocksInUse ==
    /\ query.fn = "blocksInUse"
    /\ ~answer.done
    /\ answer' = [done |-> TRUE,
                  value |-> blocksInUse(SizedInode(query.size, query.sectors))]
    /\ UNCHANGED <<muxVars, sessVars, envVars, query, walkVars>>

IndirectNext ==
    CallBlocksAreSafe \/ CallBlocksL3AreSafe \/ CallChildBlocks \/ CallBlocksInUse

IndirectSpec == IndirectInit /\ [][IndirectNext]_vars

\* The block of level `level` numbered `block` was dumped.
Fetched(block) == \E k \in 1..Len(answer.fetched) : answer.fetched[k].block = block

\* C19: the single-indirect block is fetched only if blocksInUse > 12, the
\* double-indirect block only if blocksInUse > 12 + 1024, the
\* triple-indirect block only if blocksInUse > 12 + 1024 + 1024^2; when all
\* pointers are safe each is fetched in that case; with blocksInUse = 13 and
\* all pointers safe, 12 direct pointers and 1 pointer of the single-indirect
\* block are tested and exactly one block is fetched.
LevelSelection ==
    (answer.done /\ query.fn = "blocksAreSafe") =>
        LET n == query.inUse
        IN  /\ Fetched(200) => n > 12
            /\ Fetched(300) => n > 12 + 1024
            /\ Fetched(500) => n > 12 + 1024 + 1024 * 1024
            /\ answer.safe =>
                  /\ n > 12 => Fetched(200)
                  /\ n > 12 + 1024 => Fetched(300)
            /\ (answer.safe /\ n = 13) =>
                  /\ answer.count = 12 + 1
                  /\ answer.fetched = <<Fetch(200, 1, 1)>>

\* C19 witness: a file of 12 blocks and one byte, nothing bad.
LevelSelectionWitness ==
    /\ answer.done
    /\ query.fn = "blocksAreSafe"
    /\ query.size = 12 * 4096 + 1
    /\ badRanges = <<>>
    /\ answer.safe
    /\ answer.fetched = <<Fetch(200, 1, 1)>>

\* The numbers of data blocks the dumped blocks of a level were asked to
\* cover, in fetch order.
WantsOf(level) ==
    LET fs1 == SelectSeq(answer.fetched, LAMBDA f : f.level = level)
    IN  [k \in 1..Len(fs1) |-> fs1[k].want]

\* What the children of a block covering `total` data blocks should be asked
\* for: full capacity for all but the last, the remainder for the last.
FullThenRest(total, cap) ==
    LET m == Ceil(total, cap)
    IN  [j \in 1..m |-> IF j < m THEN cap ELSE total - cap * (m - 1)]

\* C20: when every tested pointer is safe the number of data-block pointers
\* tested is min(blocksInUse, 12 + 1024 + 1024^2 + 1024^3); under a double-
\* or triple-indirect block every child but the last is consulted for its
\* full capacity and the last for exactly the remainder.
EntryCounts ==
    answer.done =>
        /\ (query.fn = "blocksAreSafe" /\ answer.safe) =>
              LET n == query.inUse
                  l1 == Min(1024, n - 12)
                  l2 == Min(1024 * 1024, n - 12 - 1024)
              IN  /\ answer.count = Min(n, 12 + 1024 + 1024 * 1024 + 1024 * 1024 * 1024)
                  /\ WantsOf(1) = (IF l1 > 0 THEN <<l1>> ELSE <<>>) \o
                                  (IF l2 > 0 THEN FullThenRest(l2, 1024) ELSE <<>>)
        /\ (query.fn = "blocksL3AreSafe" /\ answer.safe) =>
              /\ answer.count = query.blocks
              /\ WantsOf(2) = FullThenRest(query.blocks, 1024 * 1024)
              /\ WantsOf(1) = FullThenRest(query.blocks, 1024)
        /\ query.fn = "childBlocks" =>
              answer.value = FullThenRest(query.blocks, query.cap)[query.child + 1]

\* C20 witness: a file of 12 + 1024 + 1024 + 1 blocks, nothing bad: the
\* double-indirect block's children are asked for 1024 and 1 blocks.
EntryCountsWitness ==
    /\ answer.done
    /\ query.fn = "blocksAreSafe"
    /\ query.inUse = 12 + 1024 + 1024 + 1
    /\ answer.safe
    /\ answer.count = 2061
    /\ WantsOf(1) = <<1024, 1024, 1>>

---------------------------------------------------------------------------
(* Claims about blocksInUse, checked under IndirectSpec.                   *)

\* C22 as stated: blocksInUse is the record's 512-byte-sector count divided
\* by the 8 sectors of a 4096-byte block, rounded up.
SectorCountRule ==
    (answer.done /\ query.fn = "blocksInUse") =>
        /\ 8 * answer.value >= query.sectors
        /\ 8 * (answer.value - 1) < query.sectors

\* C22, amended: blocksInUse is the record's size in bytes (the 32-bit field
\* at offset 0x04) divided by the 4096 bytes of a block, rounded up; the
\* sector count has no part in it.
ByteSizeRule ==
    (answer.done /\ query.fn = "blocksInUse") =>
        /\ answer.value >= 0
        /\ 4096 * answer.value >= query.size
        /\ 4096 * (answer.value - 1) < query.size

\* C22 witness: a record of 4097 bytes and 8 sectors (one block allocated)
\* has blocksInUse = 2.
ByteSizeRuleWitness ==
    /\ answer.done
    /\ query.fn = "blocksInUse"
    /\ query.size = 4097
    /\ query.sectors = 8
    /\ answer.value = 2

---------------------------------------------------------------------------
(* The filesystem images the walk is run on.                               *)

ROOT_DIR_INODE == 2

Entry(inode, name) == [inode |-> inode, name |-> name]

\* What a listing of the root may hold besides . and ..
RootMenu ==
    { Entry(11, "f"), Entry(12, "d"), Entry(13, "x"), Entry(14, "l"),
      Entry(15, "b"), Entry(19, "m"), Entry(8029, "g") }

\* What a listing of directory 12 may hold besides . and ..: a second link
\* to file 11, a link back to the root, a socket, a file mapped by extents.
SubMenu ==
    { Entry(11, "f2"), Entry(2, "up"), Entry(16, "s"), Entry(20, "e") }

RECURSIVE Listings(_, _)
Listings(menu, n) ==
    IF n = 0 THEN {<<>>}
    ELSE LET shorter == Listings(menu, n - 1)
         IN  shorter \cup {Append(l, e) : l \in {t \in shorter : Len(t) = n - 1}, e \in menu}

\* The directory listings of an image; the inode records and blocks are
\* DiskInodes and DiskBlocks in every image.
FsImage(rootEntries, subEntries) ==
    [dirs |-> (2  :> <<Entry(2, "."), Entry(2, "..")>> \o rootEntries) @@
              (12 :> <<Entry(12, "."), Entry(2, "..")>> \o subEntries)]

FsImages ==
    {FsImage(r, d) : r \in Listings(RootMenu, MaxRootEntries),
                     d \in Listings(SubMenu, MaxSubEntries)}

---------------------------------------------------------------------------
(* The walker.                                                             *)

\* parseHex(256, await debugfsCmd(`id <${inode}>`))
InodeDump(inode) ==
    IF inode \in DOMAIN DiskInodes THEN DiskInodes[inode] ELSE <<>>

\* new InodeInfo(id, name, hex): the record's buffer is the dump of inode id,
\* read where it is used.
InodeInfo(id, name) == [id |-> id, name |-> name]
Buf(info) == InodeDump(info.id)

\* getDirEntries(inode): the listing's entries but . and ..
getDirEntries(inode) ==
    LET listing == IF inode \in DOMAIN fs.dirs THEN fs.dirs[inode] ELSE <<>>
        keep(e) == ~(e.name = "." \/ e.name = "..")
    IN  SelectSeq(listing, keep)

\* entries.filter(...) of recurse, from entry i on: the entries kept, the
\* lines printed, and whether inodeIsSafe threw.
RECURSIVE filterEntries_keepAll(_, _, _, _, _)
filterEntries_keepAll(entries, i, path, kept, printed) ==
    IF i > Len(entries) THEN [throw |-> FALSE, kept |-> kept, printed |-> printed]
    ELSE LET entry == entries[i]
             safe  == inodeIsSafe(entry.inode)
         IN  IF safe.throw THEN [throw |-> TRUE, kept |-> kept, printed |-> printed]
             ELSE filterEntries_keepAll(entries, i + 1, path, Append(kept, entry),
                     IF safe.value THEN printed
                     ELSE Append(printed, [id |-> entry.inode,
                                           line |-> "BAD " \o path \o "/" \o entry.name]))

RECURSIVE filterEntries(_, _, _, _, _)
filterEntries(entries, i, path, kept, printed) ==
    IF i > Len(entries) THEN [throw |-> FALSE, kept |-> kept, printed |-> printed]
    ELSE LET entry == entries[i]
             safe  == inodeIsSafe(entry.inode)
         IN  IF safe.throw THEN [throw |-> TRUE, kept |-> kept, printed |-> printed]
             ELSE IF safe.value
             THEN filterEntries(entries, i + 1, path, Append(kept, entry), printed)
             ELSE filterEntries(entries, i + 1, path, kept,
                                Append(printed, [id |-> entry.inode,
                                                 line |-> "BAD " \o path \o "/" \o entry.name]))

\* a ?? b: b when a is null or undefined, else a (the empty string included).
Coalesce(a, b) == IF a = Null THEN b ELSE a

\* inodesVisited.has(id)
AlreadyVisited_never(id) == FALSE
AlreadyVisited(id) == id \in inodesVisited

Frame(path, info, pc, todo) == [path |-> path, info |-> info, pc |-> pc, todo |-> todo]

Top == stack[Len(stack)]
Pop == SubSeq(stack, 1, Len(stack) - 1)
SetTop(f) == [stack EXCEPT ![Len(stack)] = f]

\* `continue` after a damaged file was reported: the loop goes on with the
\* remaining entries.
AfterBadFile(rest) == SetTop(rest)

BdCmds(fetched) == [k \in 1..Len(fetched) |-> <<"bd", fetched[k].block>>]
IdCmds(entries) == [k \in 1..Len(entries) |-> <<"id", entries[k].inode>>]

\* The state main is in before it fetches the root's inode record, for the
\* bad ranges `ranges`.
WalkInitOn(ranges) ==
    /\ MuxInit /\ SessInit
    /\ badRanges = ranges
    /\ startOfInodeTableByGroup \in WalkGroupMaps
    /\ disk = DiskBlocks
    /\ proc = ProcStart
    /\ query = [fn |-> "none"]
    /\ answer = [done |-> FALSE]
    /\ fs \in FsImages
    /\ wpc = "main"
    /\ stack = <<>>
    /\ inodesVisited = {}
    /\ output = <<>>
    /\ cmdLog = <<>>
    /\ tested = <<>>
    /\ reports = <<>>

WalkInit == WalkInitOn(WalkBadRanges)

\* Configurations in which a directory itself is damaged: the record of the
\* root's inode 2, the root's data block 2004, the data block 2002 of
\* directory 12.
DamagedDirRanges ==
    { << [start |-> 100 * 4096 + 1 * 256, length |-> 256] >>,
      << [start |-> 2004 * 4096, length |-> 4096] >>,
      << [start |-> 2002 * 4096, length |-> 4096] >> }

\* main: fetch the root's inode record and call recurse('', rootDirInfo).
MainWalk ==
    /\ wpc = "main"
    /\ wpc' = "walking"
    /\ cmdLog' = Append(cmdLog, <<"id", ROOT_DIR_INODE>>)
    /\ stack' = <<Frame("", InodeInfo(ROOT_DIR_INODE, ""), "data", <<>>)>>
    /\ UNCHANGED <<muxVars, sessVars, envVars, pureVars, fs, inodesVisited, output, tested,
                   reports>>

\* recurse: await inodeInfo.dataIsSafe(); report and return if it is false.
RecurseData ==
    /\ wpc = "walking"
    /\ Top.pc = "data"
    /\ LET v == dataIsSafe(Buf(Top.info)) IN
       /\ tested' = Append(tested, Top.info.id)
       /\ cmdLog' = cmdLog \o BdCmds(v.fetched)
       /\ IF ~v.safe
          THEN /\ output' = Append(output, "BAD " \o Coalesce(Top.path, "/"))
               /\ reports' = Append(reports, [id |-> Top.info.id, why |-> "data"])
               /\ stack' = Pop
               /\ wpc' = IF Len(stack) = 1 THEN "returned" ELSE wpc
          ELSE /\ stack' = SetTop([Top EXCEPT !.pc = "list"])
               /\ UNCHANGED <<output, reports, wpc>>
    /\ UNCHANGED <<muxVars, sessVars, envVars, pureVars, fs, inodesVisited>>

\* recurse: list the directory, filter the entries by inodeIsSafe and fetch
\* the inode records of those kept.
RecurseList ==
    /\ wpc = "walking"
    /\ Top.pc = "list"
    /\ LET entries == getDirEntries(Top.info.id)
           f == filterEntries(entries, 1, Top.path, <<>>, <<>>)
       IN  /\ output' = output \o [k \in 1..Len(f.printed) |-> f.printed[k].line]
           /\ reports' = reports \o [k \in 1..Len(f.printed) |->
                                        [id |-> f.printed[k].id, why |-> "record"]]
           /\ IF f.throw
              THEN /\ wpc' = "aborted"
                   /\ cmdLog' = Append(cmdLog, <<"ls", Top.info.id>>)
                   /\ UNCHANGED stack
              ELSE /\ cmdLog' = Append(cmdLog, <<"ls", Top.info.id>>) \o IdCmds(f.kept)
                   /\ stack' = SetTop([Top EXCEPT
                          !.pc = "loop",
                          !.todo = [k \in 1..Len(f.kept) |->
                                       InodeInfo(f.kept[k].inode, f.kept[k].name)]])
                   /\ UNCHANGED wpc
    /\ UNCHANGED <<muxVars, sessVars, envVars, pureVars, fs, inodesVisited, tested>>

\* recurse: one iteration of the for loop over safeEntryInfos.
RecurseEntry ==
    /\ wpc = "walking"
    /\ Top.pc = "loop"
    /\ Len(Top.todo) > 0
    /\ LET entryInfo == Head(Top.todo)
           rest == [Top EXCEPT !.todo = Tail(@)]
           path == Top.path \o "/" \o entryInfo.name
       IN  IF AlreadyVisited(entryInfo.id)
           THEN /\ stack' = SetTop(rest)
                /\ UNCHANGED <<inodesVisited, output, cmdLog, tested, reports>>
           ELSE /\ inodesVisited' = inodesVisited \cup {entryInfo.id}
                /\ LET file == isFile(Buf(entryInfo))
                       v == IF file THEN dataIsSafe(Buf(entryInfo)) ELSE Verdict(TRUE, <<>>, 0)
                   IN  /\ tested' = IF file THEN Append(tested, entryInfo.id) ELSE tested
                       /\ cmdLog' = cmdLog \o BdCmds(v.fetched)
                       /\ IF ~v.safe
                          THEN /\ output' = Append(output, "BAD " \o path)
                               /\ reports' = Append(reports, [id |-> entryInfo.id, why |-> "data"])
                               /\ stack' = AfterBadFile(rest)
                          ELSE IF isDir(Buf(entryInfo))
                          THEN /\ Len(stack) < MaxDepth
                               /\ stack' = Append(SetTop(rest),
                                                  Frame(path, entryInfo, "data", <<>>))
                               /\ UNCHANGED <<output, reports>>
                          ELSE /\ stack' = SetTop(rest)
                               /\ UNCHANGED <<output, reports>>
    /\ UNCHANGED <<muxVars, sessVars, envVars, pureVars, fs, wpc>>

\* recurse: the for loop is over; return to the caller.
RecurseReturn ==
    /\ wpc = "walking"
    /\ Top.pc = "loop"
    /\ Len(Top.todo) = 0
    /\ stack' = Pop
    /\ wpc' = IF Len(stack) = 1 THEN "returned" ELSE wpc
    /\ UNCHANGED <<muxVars, sessVars, envVars, pureVars, fs, inodesVisited, output,
                   cmdLog, tested, reports>>

WalkNext == MainWalk \/ RecurseData \/ RecurseList \/ RecurseEntry \/ RecurseReturn

WalkSpec == WalkInit /\ [][WalkNext]_vars

\* The event loop runs every continuation that is ready.
WalkFairSpec == WalkSpec /\ WF_vars(WalkNext)

\* The walk on a device on which a directory itself is damaged.
DamagedDirSpec == (\E ranges \in DamagedDirRanges : WalkInitOn(ranges)) /\ [][WalkNext]_vars

---------------------------------------------------------------------------
(* dataIsSafe() step by step: each step runs one of the async functions    *)
(* from a point where it was suspended (or from its call) to its next      *)
(* block-dump command or to its return.                                    *)

\* An active call is a record: the function fn, the block it dumps (-1 for
\* i_block), the buffer buf it loops over, its loop index i (for
\* blocksAreSafe the word of i_block whose level it is at), its block count
\* n, and pc: it waits for its dump ("dump") or is in its loop ("loop").
\* A run of a function ends with a return or suspended on the dump of a
\* child (a new call with pc "dump"); `tests` is the number of leaf entries
\* or data-block pointers it tested on the way.

\* extentsAreSafe from entry f.i on.
RunExtents(f) ==
    LET entryCount == readUint16LE(f.buf, 2)
        depth      == readUint16LE(f.buf, 6)
        leaf       == depth = 0
        unsafe     == {j \in f.i..(entryCount - 1) :
                         LET e == leafEntry(f.buf, j)
                         IN  ~rangeIsSafe(e.firstBlockNum * 4096,
                                          (e.firstBlockNum + e.blockCount) * 4096)}
    IN  IF f.i >= entryCount THEN [kind |-> "return", safe |-> TRUE, tests |-> 0]
        ELSE IF leaf
        THEN IF unsafe = {}
             THEN [kind |-> "return", safe |-> TRUE, tests |-> entryCount - f.i]
             ELSE [kind |-> "return", safe |-> FALSE,
                   tests |-> (CHOOSE j \in unsafe : \A k \in unsafe : j <= k) - f.i + 1]
        ELSE [kind |-> "fetch", frame |-> f, tests |-> 0,
              child |-> [fn |-> "extentsAreSafe", buf |-> <<>>, i |-> 0, n |-> 0, pc |-> "dump",
                         block |-> readUint32LE(f.buf, 12 * (f.i + 1) + 4)]]

\* blocksAreSafe from its start (f.i = 0) or from the level after the one
\* whose indirect block was found safe.
RunBlocks(f) ==
    LET inUse        == f.n
        directBlocks == directCount(inUse)
        level1Blocks == Min(blockCounts.L1, inUse - directBlocks)
        level2Blocks == Min(blockCounts.L2, inUse - directBlocks - level1Blocks)
        level3Blocks == Min(blockCounts.L3, inUse - directBlocks - level1Blocks - level2Blocks)
        direct       == pointerLoop(f.buf, directBlocks)
        level        == IF f.i = 0 THEN 12 ELSE f.i
        levelBlocks  == IF level = 12 THEN level1Blocks
                        ELSE IF level = 13 THEN level2Blocks ELSE level3Blocks
        tests        == IF f.i = 0 THEN direct.count ELSE 0
    IN  IF f.i = 0 /\ ~direct.safe
        THEN [kind |-> "return", safe |-> FALSE, tests |-> tests]
        ELSE IF level > 14 \/ levelBlocks <= 0
        THEN [kind |-> "return", safe |-> TRUE, tests |-> tests]
        ELSE [kind |-> "fetch", frame |-> [f EXCEPT !.i = level], tests |-> tests,
              child |-> [fn |-> IF level = 12 THEN "blocksL1AreSafe"
                                ELSE IF level = 13 THEN "blocksL2AreSafe"
                                ELSE "blocksL3AreSafe",
                         buf |-> <<>>, i |-> 0, n |-> levelBlocks, pc |-> "dump",
                         block |-> readUint32LE(f.buf, level * 4)]]

\* blocksL2AreSafe (cap = 1024, children blocksL1AreSafe) and
\* blocksL3AreSafe (cap = 1024^2, children blocksL2AreSafe) from pointer f.i.
RunIndirect(f, cap, childFn) ==
    LET pointers == Ceil(f.n, cap)
        pointer  == readUint32LE(f.buf, f.i * 4)
    IN  IF f.i >= pointers THEN [kind |-> "return", safe |-> TRUE, tests |-> 0]
        ELSE IF ~blockIsSafe(pointer) THEN [kind |-> "return", safe |-> FALSE, tests |-> 0]
        ELSE [kind |-> "fetch", frame |-> f, tests |-> 0,
              child |-> [fn |-> childFn, buf |-> <<>>, i |-> 0,
                         n |-> childBlocks(f.n, f.i, cap), pc |-> "dump", block |-> pointer]]

\* The function of frame f runs on; blocksL1AreSafe runs its whole loop.
Run(f) ==
    IF f.fn = "extentsAreSafe" THEN RunExtents(f)
    ELSE IF f.fn = "blocksAreSafe" THEN RunBlocks(f)
    ELSE IF f.fn = "blocksL1AreSafe"
    THEN [kind |-> "return", safe |-> pointerLoop(f.buf, f.n).safe,
          tests |-> pointerLoop(f.buf, f.n).count]
    ELSE IF f.fn = "blocksL2AreSafe" THEN RunIndirect(f, blockIdsPerBlock, "blocksL1AreSafe")
    ELSE RunIndirect(f, blockIdsPerBlock * blockIdsPerBlock, "blocksL2AreSafe")

\* The inode whose data is resolved: one mapped by the extent tree of the
\* query, or one with classic addressing of the query's size.
ResolveInode ==
    IF query.fn = "extentsAreSafe"
    THEN InodeBuf(33188, 4096, S_EXTENTS, ExtTree(query.depth, query.es, query.split).root)
    ELSE IndirectInode(query.size)

\* `if (!(await child)) return false`: the child's result makes the caller
\* return false.
childFailed_never(ret) == FALSE
childFailed(ret) == ret = "false"

\* The function of frame f, with the calls `below` suspended under it, runs
\* to its next block-dump command or to its return; acc holds what was found
\* and counted before.
Advance(below, f, acc) ==
    LET r == Run(f)
    IN  IF r.kind = "return"
        THEN /\ stack' = below
             /\ answer' = [done |-> FALSE,
                           ret |-> IF r.safe THEN "true" ELSE "false",
                           unsafe |-> acc.unsafe \/ ~r.safe,
                           count |-> acc.count + r.tests]
             /\ UNCHANGED cmdLog
        ELSE /\ stack' = below \o <<r.frame, r.child>>
             /\ cmdLog' = Append(cmdLog, <<"bd", r.child.block>>)
             /\ answer' = [done |-> FALSE, ret |-> "none", unsafe |-> acc.unsafe,
                           count |-> acc.count + r.tests]

\* dataIsSafe() is called on the inode.
CallDataIsSafe ==
    /\ DOMAIN answer = {"done"}
    /\ Advance(<<>>,
               [fn |-> IF usesExtents(ResolveInode) THEN "extentsAreSafe" ELSE "blocksAreSafe",
                block |-> -1, buf |-> get_i_block(ResolveInode), i |-> 0,
                n |-> blocksInUse(ResolveInode), pc |-> "loop"],
               [unsafe |-> FALSE, count |-> 0])
    /\ UNCHANGED <<muxVars, sessVars, envVars, query, fs, wpc, inodesVisited, output,
                   tested, reports>>

\* The response to a block-dump command arrives: the function that waits
\* for it parses the block and runs its loop.
ResumeAfterDump ==
    /\ Len(stack) > 0
    /\ Top.pc = "dump"
    /\ Advance(Pop, [Top EXCEPT !.buf = BlockDump(Top.block), !.pc = "loop"], answer)
    /\ UNCHANGED <<muxVars, sessVars, envVars, query, fs, wpc, inodesVisited, output,
                   tested, reports>>

\* A callee has returned: its caller returns false, or goes on with its
\* next entry or level.
ResumeAfterChild ==
    /\ Len(stack) > 0
    /\ Top.pc = "loop"
    /\ answer.ret # "none"
    /\ IF childFailed(answer.ret)
       THEN /\ stack' = Pop
            /\ UNCHANGED <<answer, cmdLog>>
       ELSE Advance(Pop, [Top EXCEPT !.i = @ + 1], answer)
    /\ UNCHANGED <<muxVars, sessVars, envVars, query, fs, wpc, inodesVisited, output,
                   tested, reports>>

\* dataIsSafe() returns to its caller.
ReturnDataIsSafe ==
    /\ stack = <<>>
    /\ ~answer.done
    /\ DOMAIN answer # {"done"}
    /\ answer.ret # "none"
    /\ answer' = [answer EXCEPT !.done = TRUE] @@ [safe |-> answer.ret = "true"]
    /\ UNCHANGED <<muxVars, sessVars, envVars, query, walkVars>>

ResolveNext == CallDataIsSafe \/ ResumeAfterDump \/ ResumeAfterChild \/ ReturnDataIsSafe

\* dataIsSafe() on the extent trees of ExtentSpec and on the inodes with
\* classic addressing of IndirectSpec.
ResolveSpec ==
    (ExtentInit \/ (IndirectInit /\ query.fn = "blocksAreSafe")) /\ [][ResolveNext]_vars

\* An unsafe run or pointer has been found.
UnsafeSeen == DOMAIN answer # {"done"} /\ answer.unsafe

\* The block the entry at the cursor of frame f refers to.
RefAt(f) ==
    IF f.fn = "extentsAreSafe" THEN readUint32LE(f.buf, 12 * (f.i + 1) + 4)
    ELSE readUint32LE(f.buf, 4 * f.i)

\* The entries of frame f that refer to blocks and come before its cursor.
RefsBefore(f) ==
    IF f.fn = "blocksAreSafe" THEN 12..(f.i - 1) ELSE 0..(f.i - 1)

\* C21: once a tested run or pointer was found to overlap a bad range no
\* further block-dump command is issued and nothing more is tested: every
\* later step returns from one call, until dataIsSafe() returns false; and a
\* block-dump command is issued only for the block the caller's current
\* entry refers to, after the blocks of its earlier entries.
ShortCircuitLazy ==
    [][ /\ UnsafeSeen =>
              /\ cmdLog' = cmdLog
              /\ answer'.count = answer.count
              /\ IF stack = <<>> THEN answer'.done /\ ~answer'.safe
                 ELSE stack' = Pop
        /\ cmdLog' # cmdLog =>
              LET caller == stack'[Len(stack') - 1]
              IN  /\ Len(stack') >= 2
                  /\ cmdLog' = Append(cmdLog, <<"bd", RefAt(caller)>>)
                  /\ stack'[Len(stack')].pc = "dump"
                  /\ \A j \in RefsBefore(caller) :
                        \E k \in 1..Len(cmdLog) :
                           cmdLog[k] = <<"bd", RefAt([caller EXCEPT !.i = j])>>
      ]_vars

\* The steps add up to the functions taken whole: the verdict, the blocks
\* dumped in order and the number of entries tested are those of
\* dataIsSafe().
StepsAgree ==
    answer.done =>
        LET v == dataIsSafe(ResolveInode)
        IN  /\ answer.safe = v.safe
            /\ cmdLog = BdCmds(v.fetched)
            /\ answer.count = v.count

\* C21 witness: a tree of depth 2 whose first leaf, block 60, holds the
\* unsafe extent (10, 2): blocks 51 and 60 were dumped, block 61 never, and
\* dataIsSafe() returned false.
ShortCircuitWitness ==
    /\ answer.done /\ ~answer.safe
    /\ query.fn = "extentsAreSafe"
    /\ query.depth = 2 /\ query.split = 1
    /\ query.es = <<[f |-> 10, c |-> 2], [f |-> 8, c |-> 1]>>
    /\ badRanges = << [start |-> 11 * 4096, length |-> 4096] >>
    /\ cmdLog = << <<"bd", 51>>, <<"bd", 60>> >>

---------------------------------------------------------------------------
(* Claims about the walk, checked under WalkSpec and WalkFairSpec.         *)

\* The file type an inode's mode encodes: the mode's top four bits.
FileType(inode) == (readUint16LE(InodeDump(inode), 0) \div 4096) * 4096

\* How often x occurs in the sequence q.
Count(q, x) == Cardinality({k \in 1..Len(q) : q[k] = x})

\* C8: an entry that is neither a regular file nor a directory is never
\* reported as BAD on account of its data and never recursed into or listed.
OtherTypesIgnored ==
    /\ \A k \in 1..Len(reports) :
          reports[k].why = "data" => FileType(reports[k].id) \in {S_IFREG, S_IFDIR}
    /\ \A k \in 1..Len(stack) : FileType(stack[k].info.id) = S_IFDIR
    /\ \A k \in 1..Len(cmdLog) :
          cmdLog[k][1] = "ls" => FileType(cmdLog[k][2]) = S_IFDIR

\* C9: during one walk every inode number, the root included, has its data
\* tested by dataIsSafe at most once and its entries listed at most once.
VisitedAtMostOnce ==
    /\ \A k \in 1..Len(tested) : Count(tested, tested[k]) <= 1
    /\ \A k \in 1..Len(cmdLog) : cmdLog[k][1] = "ls" => Count(cmdLog, cmdLog[k]) <= 1

\* Every inode number a directory listing names lies in a group of the map
\* (the data model's invariant on GroupInodeTableMap).
ListedGroupsExist ==
    \A d \in DOMAIN fs.dirs : \A k \in 1..Len(fs.dirs[d]) :
        ((fs.dirs[d][k].inode - 1) \div 8028) \in DOMAIN startOfInodeTableByGroup

\* C10: on every directory graph, cycles through repeated inode numbers
\* included, the walk ends, and the root call of recurse eventually returns
\* unless a listing names an inode of a group the table does not know.
WalkTerminates ==
    <>(\/ wpc = "returned"
       \/ wpc = "aborted" /\ ~ListedGroupsExist)

\* C10 witness: the walk followed a link from a subdirectory back to the
\* root, entered the root a second time, and still returned.
WalkTerminatesWitness ==
    /\ wpc = "returned"
    /\ ListedGroupsExist
    /\ Count(tested, 12) = 1
    /\ Count(tested, ROOT_DIR_INODE) = 2
    /\ \E k \in 1..Len(fs.dirs[12]) : fs.dirs[12][k] = Entry(2, "up")

\* The record of inode n lies in a known group and overlaps a bad range.
RecordBad(n) == LET s == inodeIsSafe(n) IN ~s.throw /\ ~s.value

HasLs(inode) == \E k \in 1..Len(cmdLog) : cmdLog[k] = <<"ls", inode>>

Printed(line) == \E k \in 1..Len(output) : output[k] = line

\* C12: an entry whose inode record overlaps a bad range is reported as
\* BAD <parent path>/<name>; no inode-info command is issued for its inode,
\* its data is not tested and it is not recursed into; the other entries of
\* the directory are still processed.
BadRecordEntrySkipped ==
    /\ \A k \in 1..Len(cmdLog) : cmdLog[k][1] = "id" => ~RecordBad(cmdLog[k][2])
    /\ \A k \in 1..Len(tested) : ~RecordBad(tested[k])
    /\ \A k \in 1..Len(stack) : ~RecordBad(stack[k].info.id)
    /\ \A k \in 1..Len(stack) : stack[k].pc = "loop" =>
          LET entries == getDirEntries(stack[k].info.id)
          IN  \A j \in 1..Len(entries) :
                 IF RecordBad(entries[j].inode)
                 THEN Printed("BAD " \o stack[k].path \o "/" \o entries[j].name)
                 ELSE \/ entries[j].inode \in inodesVisited
                      \/ \E t \in 1..Len(stack[k].todo) :
                            stack[k].todo[t] = InodeInfo(entries[j].inode, entries[j].name)
    /\ wpc = "returned" =>
          LET entries == getDirEntries(ROOT_DIR_INODE)
          IN  \A j \in 1..Len(entries) :
                 IF RecordBad(entries[j].inode)
                 THEN Printed("BAD /" \o entries[j].name)
                 ELSE entries[j].inode \in inodesVisited

\* C12 witness: the root lists m (bad record) before f; the walk has
\* returned with BAD /m printed and f visited after it.
BadRecordEntryWitness ==
    /\ wpc = "returned"
    /\ getDirEntries(ROOT_DIR_INODE) = <<Entry(19, "m"), Entry(11, "f")>>
    /\ output = <<"BAD /m">>
    /\ tested = <<2, 11>>

\* The position of the first entry of the sequence q that names inode n
\* (0 if there is none).
FirstEntryOf(q, n) ==
    IF \E j \in 1..Len(q) : q[j].inode = n
    THEN CHOOSE j \in 1..Len(q) : q[j].inode = n /\ \A i \in 1..(j - 1) : q[i].inode # n
    ELSE 0

\* C13: a regular file of a safe root whose single data block lies in a bad
\* range (inode 13, block 2001) is reported exactly once, as BAD /<name>, and
\* the entries listed after it are still processed.
BadFileReportedOnce ==
    LET entries == getDirEntries(ROOT_DIR_INODE)
        x == FirstEntryOf(entries, 13)
    IN  /\ Cardinality({k \in 1..Len(reports) : reports[k].id = 13}) <= 1
        /\ \A k \in 1..Len(stack) :
              (stack[k].pc = "loop" /\ stack[k].info.id = ROOT_DIR_INODE /\ stack[k].path = "") =>
                 \A j \in 1..Len(entries) :
                    \/ RecordBad(entries[j].inode)
                    \/ entries[j].inode \in inodesVisited
                    \/ \E t \in 1..Len(stack[k].todo) :
                          stack[k].todo[t] = InodeInfo(entries[j].inode, entries[j].name)
        /\ (wpc = "returned" /\ x > 0) =>
              /\ Count(output, "BAD /" \o entries[x].name) = 1
              /\ Cardinality({k \in 1..Len(reports) : reports[k].id = 13}) = 1
              /\ \A j \in (x + 1)..Len(entries) :
                    IF RecordBad(entries[j].inode)
                    THEN Printed("BAD /" \o entries[j].name)
                    ELSE entries[j].inode \in inodesVisited

\* The block group of inode n is absent from startOfInodeTableByGroup.
GroupMissing(n) == ((n - 1) \div InodesPerGroup) \notin DOMAIN startOfInodeTableByGroup

\* The position of the first entry of q whose group is missing (0 if none).
FirstMissing(q) ==
    IF \E j \in 1..Len(q) : GroupMissing(q[j].inode)
    THEN CHOOSE j \in 1..Len(q) :
            GroupMissing(q[j].inode) /\ \A i \in 1..(j - 1) : ~GroupMissing(q[i].inode)
    ELSE 0

\* C17: the lookup of an inode whose group is absent from the map throws
\* instead of yielding an address, and the throw aborts the walk: the
\* listing that names the inode never reaches the loop, no command is issued
\* for the inode, and nothing is tested or reported after the throw.
MissingGroupAborts ==
    /\ \A d \in DOMAIN fs.dirs : \A j \in 1..Len(fs.dirs[d]) :
          GroupMissing(fs.dirs[d][j].inode) => getAddressOfInode(fs.dirs[d][j].inode).throw
    /\ \A k \in 1..Len(cmdLog) : ~GroupMissing(cmdLog[k][2])
    /\ \A k \in 1..Len(stack) :
          stack[k].pc = "loop" => FirstMissing(getDirEntries(stack[k].info.id)) = 0
    /\ (wpc = "returned" /\ HasLs(ROOT_DIR_INODE)) =>
          FirstMissing(getDirEntries(ROOT_DIR_INODE)) = 0
    /\ wpc = "aborted" =>
          LET entries == getDirEntries(Top.info.id)
              g == FirstMissing(entries)
              before == SelectSeq(SubSeq(entries, 1, g - 1), LAMBDA e : RecordBad(e.inode))
          IN  /\ g > 0
              /\ Top.info.id = ROOT_DIR_INODE /\ Len(stack) = 1
              /\ tested = <<ROOT_DIR_INODE>>
              /\ cmdLog = <<<<"id", ROOT_DIR_INODE>>, <<"ls", ROOT_DIR_INODE>>>>
              /\ output = [k \in 1..Len(before) |-> "BAD /" \o before[k].name]

\* C17 witness: the root lists m (bad record), then g (inode 8029, group 1
\* missing); the walk aborted after printing BAD /m only.
MissingGroupWitness ==
    /\ wpc = "aborted"
    /\ getDirEntries(ROOT_DIR_INODE) = <<Entry(19, "m"), Entry(8029, "g")>>
    /\ output = <<"BAD /m">>

\* The entries the paths of up to n names lead to, from the root (path '').
RECURSIVE PathsTo(_)
PathsTo(n) ==
    IF n = 0 THEN {[path |-> "", inode |-> ROOT_DIR_INODE]}
    ELSE LET shorter == PathsTo(n - 1)
         IN  shorter \cup
             UNION {{[path  |-> r.path \o "/" \o getDirEntries(r.inode)[k].name,
                      inode |-> getDirEntries(r.inode)[k].inode] :
                        k \in 1..Len(getDirEntries(r.inode))} : r \in shorter}

\* The 256 bytes of the record of inode n, of a group the map lists, meet a
\* bad range.
RecordOverlaps(n) ==
    LET group == (n - 1) \div 8028
    IN  /\ group \in DOMAIN startOfInodeTableByGroup
        /\ overlaps(startOfInodeTableByGroup[group] + ((n - 1) % 8028) * 256,
                    startOfInodeTableByGroup[group] + ((n - 1) % 8028) * 256 + 256)

\* The data blocks the resolution of inode n arrives at: the one extent of
\* the leaf in block 2003 (one block at 2000) for the inode mapped by
\* extents, else the first ceil(size / 4096) direct pointers.
ResolvedBlocks(n) ==
    LET buf == InodeDump(n)
    IN  IF (buf[8] \div 524288) % 2 = 1 THEN {2000}
        ELSE {buf[10 + k] : k \in 0..(((buf[1] + 4095) \div 4096) - 1)}

\* A data block of inode n meets a bad range.
DataOverlaps(n) ==
    \E b \in ResolvedBlocks(n) : overlaps(b * 4096, (b + 1) * 4096)

\* C24: every BAD <path> line is justified: the path leads to an entry whose
\* inode record meets a bad range or whose resolved data meets one; no path
\* is reported for an entry whose record and data lie outside every bad
\* range.
ReportsJustified ==
    \A k \in 1..Len(output) :
        \E r \in PathsTo(MaxDepth) :
            /\ output[k] = "BAD " \o r.path
            /\ reports[k].id = r.inode
            /\ RecordOverlaps(r.inode) \/ DataOverlaps(r.inode)

\* C24 witness: the root lists m (bad record) and x (bad data block); both
\* and nothing else were reported.
ReportsJustifiedWitness ==
    /\ wpc = "returned"
    /\ getDirEntries(ROOT_DIR_INODE) = <<Entry(13, "x"), Entry(19, "m")>>
    /\ output = <<"BAD /m", "BAD /x">>
    /\ RecordOverlaps(19) /\ ~DataOverlaps(19)
    /\ DataOverlaps(13) /\ ~RecordOverlaps(13)

---------------------------------------------------------------------------
(* Claims about damaged directories, checked under DamagedDirSpec.         *)

\* C11: if the record of the root's inode 2 overlaps a bad range, the walk
\* prints BAD / and nothing else, and lists no directory.
RootRecordBadReported ==
    (wpc # "main" /\ ~inodeIsSafe(ROOT_DIR_INODE).value) =>
        /\ \A k \in 1..Len(cmdLog) : cmdLog[k][1] # "ls"
        /\ wpc = "returned" => output = <<"BAD /">>

\* dataIsSafe() of inode n is false.
DataBad(n) == ~dataIsSafe(InodeDump(n)).safe

\* The path of a directory of the images: / for the root, /d for inode 12.
DirPath(n) == IF n = ROOT_DIR_INODE THEN "/" ELSE "/d"

\* C14: once dataIsSafe() of a directory has been found false, the
\* directory's path is reported as BAD and no list-directory command is
\* ever issued for it.
DamagedDirReported ==
    \A n \in {ROOT_DIR_INODE, 12} :
        ((\E k \in 1..Len(tested) : tested[k] = n) /\ DataBad(n)) =>
            /\ ~HasLs(n)
            /\ Printed("BAD " \o DirPath(n))

\* The part of C14 the code keeps: a damaged directory is never listed, and
\* a damaged directory other than the root is reported under its path.
DamagedDirNeverListed ==
    \A n \in {ROOT_DIR_INODE, 12} :
        ((\E k \in 1..Len(tested) : tested[k] = n) /\ DataBad(n)) =>
            /\ ~HasLs(n)
            /\ n # ROOT_DIR_INODE => Printed("BAD " \o DirPath(n))

=============================================================================
